---- MODULE Spec2Model ----
(***************************************************************************)
(* EmoVision backend: the pipeline orchestrator (app/core/pipeline.py),    *)
(* the source manager's frame generator (app/core/source_manager.py) and   *)
(* the streaming endpoint and REST source routes that drive them           *)
(* (app/api/routes/websocket.py, app/api/routes/source.py, app/api/deps.py)*)
(*                                                                         *)
(* Everything runs on one asyncio event loop.  A coroutine runs            *)
(* uninterrupted from one await that really suspends to the next, so every *)
(* action below is one such stretch of code: it starts where a task was    *)
(* suspended (its pc) and ends at the next suspension.  Sleeps, executor   *)
(* calls, awaited tasks and callback sends are the suspension points.      *)
(* task.cancel() sets a request that is delivered as CancelledError at the *)
(* task's suspension point in a later step.                                *)
(*                                                                         *)
(* In the specifications of the pipeline and its tasks run() takes its     *)
(* frames from SourceManager.frame_generator (performance.adaptive_skip    *)
(* off); async_inference and skip_frames are chosen at the start.          *)
(*                                                                         *)
(* Beside them stand, each with a specification of its own: the broadcast  *)
(* of the ConnectionManager; the source manager in detail with             *)
(* frame_generator_adaptive, its reader task and the read executor thread  *)
(* (SpecAdaptive); the SessionManager (app/core/session.py, SpecSessions); *)
(* the pipeline cache of deps.py with the config routes                    *)
(* (app/api/routes/config.py, SpecConfig); and the face/person pairing of  *)
(* app/modules/recognizer/matching.py (SpecMatching).                      *)
(*                                                                         *)
(* A finished task that nothing refers to any more is dropped from the     *)
(* state (its slot is free again), so MaxRuns and MaxEnc bound the tasks   *)
(* alive at one time, not the tasks ever created.                          *)
(***************************************************************************)
EXTENDS Integers, Sequences, FiniteSets, TLC

\* ---------------------------------------------------------------- bounds
Conns      == {"c1", "c2"}      \* streaming connections ever made to the pipeline
MaxRuns    == 2                 \* run() tasks alive at one time
MaxEnc     == 2                 \* encode-and-send tasks alive at one time
VideoLen   == 2                 \* frames in the uploaded video file
MaxFrameId == 2                 \* frames one generator yields at most
MaxSkip    == 0                 \* largest configured skip_frames
MaxSkipped == 2                 \* the same where the generator is taken alone
MaxDet     == 1                 \* detections one detect() call returns (1..MaxDet)
MaxObj     == 3                 \* PipelineConfig objects alive at one time
MaxSessions == 2                \* sessions ever created
MaxMade    == 2                 \* Pipeline instances counted per session id
MaxFailed  == 1                 \* loads of a model that raise in update_config
MaxFaces   == 2                 \* faces the detector returns for a frame
MaxPersons == 2                 \* persons the detector returns for a frame

Tasks   == 1..MaxRuns
Encs    == 1..MaxEnc
Holders == Conns \cup {"api"}          \* who can hold a run() task
Callers == Conns \cup {"rest", "api"}  \* who can be inside a call of the pipeline

\* PipelineState
IDLE    == "idle"
RUNNING == "running"
PAUSED  == "paused"
ERROR   == "error"
PipelineState == {IDLE, RUNNING, PAUSED, ERROR}

\* SourceType; srcType "none" is source_info = None
SourceType == {"image", "video", "camera"}

VARIABLES
    \* Pipeline
    state,          \* _state
    initialized,    \* _detector / _recognizer / _renderer are set
    useAsync,       \* _use_async_inference (fixed at construction)
    skipFrames,     \* config.performance.skip_frames
    frameCount,     \* _frame_count
    detCounter,     \* detector._detection_counter
    pendingEncode,  \* _pending_encode: an encode task, 0 = None
    cbSet,          \* set_callbacks() registered the frame/stats/status callbacks
    \* SourceManager
    srcType,        \* source_info.source_type, "none" when source_info is None
    isRunning,      \* _is_running
    isPaused,       \* _is_paused
    pos,            \* read position of the video capture
    \* tasks
    run,            \* run() tasks
    enc,            \* _encode_and_send tasks
    \* websocket_stream handlers, callers of stop(), REST
    hst,            \* handler position per connection
    rt,             \* the run() task a handler or caller holds (0: None or done)
    stp,            \* position of each caller inside stop(), pause() or resume()
    rest,           \* the REST source request in flight
    noop,           \* the call that just returned without doing anything
    preview,        \* the source whose preview frame the stop() that just
                    \* returned dispatched ("none": no preview, or no such stop)
    \* ConnectionManager
    connections,    \* _connections: the broadcast set
    sock,           \* each websocket: new, open (accepted) or closed
    bcast,          \* the broadcast each sending coroutine is inside
    wire,           \* per websocket "header" when the last message put on it
                    \* is a frame header, else "none"
    \* SourceManager in detail, with its adaptive generator
    srcName,        \* source_info.path or camera_id, "none" when there is none
    capture,        \* _capture: none, an opened VideoCapture, or one that
                    \* failed to open ("dead")
    currentFrame,   \* _current_frame
    frameQueue,     \* _frame_queue, oldest frame first
    agen,           \* the frame_generator_adaptive in use
    reader,         \* its _frame_reader_loop task
    thread,         \* the read_frame call in the frame_reader thread
    opened,         \* the open_* call that returned last, until the next call
    \* SessionManager, deps.py
    heap,           \* the PipelineConfig objects
    sessions,       \* _sessions: per id the config object held and is_active
    current,        \* _current_session_id (0: None)
    nextId,         \* the id the next session gets
    pipe,           \* _pipelines: per session id the cached Pipeline and the
                    \* config object it holds
    made,           \* per session id the Pipeline instances ever created
    call,           \* the call or request that ran last
    \* the detections of a frame and their pairing
    faces,          \* the face Detections, in the detector's order
    persons,        \* the person Detections
    mapping,        \* the dict match_faces_to_persons returned
    mstep           \* what was done last to the detections

pvars   == <<state, initialized, useAsync, skipFrames, frameCount,
             detCounter, pendingEncode, cbSet>>
svars   == <<srcType, isRunning, isPaused, pos>>
tvars   == <<run, enc>>
hvars   == <<hst, rt, stp, rest>>
bvars   == <<connections, sock, bcast, wire>>
gvars   == <<srcName, capture, currentFrame, frameQueue, agen, reader, thread, opened>>
\* the layers beside the pipeline, its tasks and the handlers
cvars   == <<heap, sessions, current, nextId, pipe, made, call>>
mvars   == <<faces, persons, mapping, mstep>>
evars   == <<bvars, gvars, cvars, mvars>>
vars    == <<pvars, svars, tvars, hvars, noop, preview, evars>>

\* No frame: None where the code holds a frame.  A frame is the n-th frame
\* of the source src.
NoFrame == [src |-> "none", n |-> 0]

\* No adaptive generator.  pc: where the generator is suspended; fid: its
\* frame_id; last: the frame it yielded last.
NoGen == [pc |-> "none", fid |-> 0, last |-> NoFrame]

\* No reader task.  pc: where _frame_reader_loop is suspended; cancel: a
\* cancel() request not yet delivered; ret, frame: the result of read_frame
\* it is about to take up.
NoReader == [pc |-> "none", cancel |-> FALSE, ret |-> FALSE, frame |-> NoFrame]

\* The frame_reader thread idle.  st: idle or inside read_frame ("busy");
\* ret, frame: what the call returns; write: whether the call assigns
\* _current_frame on its way out (a successful capture read does).
NoRead == [st |-> "idle", ret |-> FALSE, frame |-> NoFrame, write |-> FALSE]

\* No open_* call has returned since the last call on the source manager.
NoOpen == [name |-> "none", kind |-> "none", ret |-> "none"]

\* A free run() task slot.  pc: where the task is suspended; gen: its frame
\* generator (none, open, closed); fid, skipc: the generator's frame_id and
\* skip_counter; exc: the exception in flight in the finally block; cancel:
\* a cancel() request not yet delivered; wait: the encode task awaited;
\* eof: the generator ended of its own accord (the end of the video, the one
\* frame of an image, no source, _is_running cleared); eos: whether this
\* run() made the _notify_event("eos", "source_eof", _frame_count) call, and
\* then whether after its generator had ended so ("eof") or not ("early").
\* last: the frame_id of the last frame message an encode task of this
\* run() handed to a frame callback (0: none yet).  halt: SourceManager.stop()
\* has been called, through Pipeline.stop(), since this run()'s generator
\* entered its loop.
NoRun == [pc |-> "free", gen |-> "none", fid |-> 0, skipc |-> 0, exc |-> "none",
          cancel |-> FALSE, wait |-> 0, eof |-> FALSE, eos |-> "none", last |-> 0,
          halt |-> FALSE]

\* A free encode task slot.  fid: the frame_id the task was created with;
\* by: the run() task that created it, while that is alive (else 0).
NoEnc == [st |-> "free", cancel |-> FALSE, fid |-> 0, by |-> 0]

\* A caller that is not inside stop(), pause() or resume().  from: the state
\* of the pipeline when the call was made; msg: the pipeline_state of the
\* status message the call is sending.
NoStop == [pc |-> "none", wait |-> 0, from |-> "none", msg |-> "none"]

\* The websockets of the broadcast layer, and the coroutines that send
\* through it: the encode task inside on_binary_frame ("frame") and one
\* inside on_status or on_stats ("text").
Sockets == {"w1", "w2", "w3"}
Senders == {"frame", "text"}

\* A sender outside any broadcast.  pc: the send it is suspended in (text,
\* header, bytes), or cancelled after an encode task was cancelled inside
\* its broadcast; at: the websocket of that send; start: _connections when
\* the for loop took its iterator; got: the websockets visited whose sends
\* all returned; disc: the list `disconnected`, those whose send raised.
NoCast == [pc |-> "idle", at |-> "none", start |-> {}, got |-> {}, disc |-> {}]

\* Pipeline.__init__ and SourceManager.__init__, with no task, no client and
\* no request yet; k is the source that is open and inited whether
\* initialize() has run.
InitSkipping(k, inited, skips) ==
    /\ state = IDLE
    /\ initialized = inited
    /\ useAsync \in BOOLEAN
    /\ skipFrames \in skips
    /\ frameCount = 0
    /\ detCounter = 0
    /\ pendingEncode = 0
    /\ cbSet = FALSE
    /\ srcType = k
    /\ isRunning = FALSE
    /\ isPaused = FALSE
    /\ pos = 0
    /\ run = [t \in Tasks |-> NoRun]
    /\ enc = [e \in Encs |-> NoEnc]
    /\ hst = [c \in Conns |-> "new"]
    /\ rt = [c \in Holders |-> 0]
    /\ stp = [c \in Callers |-> NoStop]
    /\ rest = "idle"
    /\ noop = "none"
    /\ preview = "none"
    /\ connections = {}
    /\ sock = [w \in Sockets |-> "new"]
    /\ bcast = [s \in Senders |-> NoCast]
    /\ wire = [w \in Sockets |-> "none"]
    /\ srcName = "none"
    /\ capture = "none"
    /\ currentFrame = NoFrame
    /\ frameQueue = <<>>
    /\ agen = NoGen
    /\ reader = NoReader
    /\ thread = NoRead
    /\ opened = NoOpen
    /\ heap = [o \in 1..MaxObj |-> [s \in {"detector", "recognizer", "visualizer", "performance"} |-> 0]]
    /\ sessions = [s \in 1..MaxSessions |-> [cfg |-> 0, active |-> FALSE]]
    /\ current = 0
    /\ nextId = 1
    /\ pipe = [s \in 1..MaxSessions |->
                  [inst |-> 0, cfg |-> 0, detector |-> 0, recognizer |-> 0,
                   renderer |-> 0, live |-> FALSE, failed |-> 0]]
    /\ made = [s \in 1..MaxSessions |-> 0]
    /\ call = [op |-> "none", sid |-> 0]
    /\ faces = <<>>
    /\ persons = <<>>
    /\ mapping = {}
    /\ mstep = "none"

\* The same with skip_frames within its bound.
InitWith(k, inited) == InitSkipping(k, inited, 0..MaxSkip)

\* The server before its first request: deps.py has constructed no pipeline.
Init == InitWith("none", FALSE)

\* The same with the default configuration, async_inference on.
InitDefault == Init /\ useAsync

\* ------------------------------------------------------------- helpers

\* task.done() for an encode task
EncFinished(x) == x.st \in {"done", "failed", "cancelled"}

\* Smallest member of a non-empty set of numbers.
Min(S) == CHOOSE m \in S : \A k \in S : m <= k

\* A coroutine awaiting an encode task that has ended is due to resume: the
\* task's done callbacks queue its wake-up (call_soon) ahead of whatever the
\* loop learns of later, an executor's result included.
Woken ==
    \/ \E t \in Tasks : run[t].wait # 0 /\ EncFinished(enc[run[t].wait])
    \/ \E c \in Callers : stp[c].wait # 0 /\ EncFinished(enc[stp[c].wait])

\* The free slots.
FreeRuns == {t \in Tasks : run[t].pc = "free"}
FreeEncs(f) == {e \in Encs : f[e].st = "free"}

\* An encode task that has ended and that nothing holds any more (neither
\* _pending_encode nor a coroutine awaiting it) is dropped.
Forget(f, pe, rn, sp) ==
    [e \in Encs |->
        IF /\ EncFinished(f[e])
           /\ pe # e
           /\ \A t \in Tasks : rn[t].wait # e
           /\ \A c \in Callers : sp[c].wait # e
        THEN NoEnc
        ELSE IF EncFinished(f[e]) \/ (f[e].by # 0 /\ rn[f[e].by].pc \in {"free", "done", "gone"})
        THEN [f[e] EXCEPT !.by = 0, !.fid = 0]
        ELSE f[e]]

\* running_task.done(): the handler treats a finished task like None.
Unref(h, rn) == [c \in Holders |-> IF h[c] # 0 /\ rn[h[c]].pc = "gone" THEN 0 ELSE h[c]]

\* What is left of a run() task.  Of a task that is gone, only a generator
\* still open; nothing when that is closed.  A task that nobody holds and
\* that is at its last await or done has no effect left but to end, and
\* nobody sees how: it is gone already.
Settle(rn, h) ==
    [t \in Tasks |->
        LET over == \/ rn[t].pc = "gone"
                    \/ rn[t].pc \in {"fnotify", "done"} /\ \A c \in Holders : h[c] # t
        IN IF ~over THEN rn[t]
           ELSE IF rn[t].gen = "open" THEN [NoRun EXCEPT !.pc = "gone", !.gen = "open"]
           ELSE NoRun]

\* The working copy a coroutine step computes on: the fields of the pipeline
\* and the source manager that run() and the generator write, and task t's
\* own record.
Ctx(t) == [r |-> run[t], state |-> state, pe |-> pendingEncode,
           ir |-> isRunning, ip |-> isPaused, pos |-> pos,
           fc |-> frameCount, dc |-> detCounter, enc |-> enc]

\* Write a working copy back.
Commit(t, x) ==
    LET rn == [run EXCEPT ![t] = x.r]
    IN /\ run' = Settle(rn, rt)
       /\ rt' = Unref(rt, rn)
       /\ state' = x.state
       /\ pendingEncode' = x.pe
       /\ isRunning' = x.ir
       /\ isPaused' = x.ip
       /\ pos' = x.pos
       /\ frameCount' = x.fc
       /\ detCounter' = x.dc
       /\ enc' = Forget(x.enc, x.pe, Settle(rn, rt), stp)
       /\ noop' = "none" /\ preview' = "none" /\ UNCHANGED evars
       /\ UNCHANGED <<initialized, useAsync, skipFrames, cbSet, srcType, hst, stp, rest>>

\* run() is over: the task is done and its outcome is that run() returned
\* (exc "none"), raised (exc "error") or was cancelled (exc "cancel").
Done(x) ==
    [x EXCEPT !.r = [NoRun EXCEPT !.pc = "done", !.gen = x.r.gen, !.exc = x.r.exc]]

\* `await self._notify_status()` at pc p: the task is suspended in the status
\* callback when one is registered; without one the call returns at once
\* and, this being the last statement of run(), the task is over.
NotifyStatus(x, p) ==
    IF cbSet THEN [x EXCEPT !.r.pc = p, !.r.wait = 0] ELSE Done(x)

\* run(), the end of the finally block: the state test with the eos event,
\* then `await self._notify_status()`.  The streaming endpoint registers no
\* event callback, so _notify_event("eos", ...) is called and sends nothing.
FinallyTail(x) ==
    LET y == IF x.state = RUNNING
             THEN [x EXCEPT !.state = IDLE,
                            !.r.eos = IF x.r.eof THEN "eof" ELSE "early"]
             ELSE x
    IN NotifyStatus([y EXCEPT !.r.eof = FALSE], "fnotify")

\* run(), the finally block from its top: wait for the pending encode task
\* (no suspension when there is none or it is already done; whatever it
\* raised is swallowed).  The frame loop is over, and with it the use of the
\* generator's frame_id and skip_counter.
Finally(x) ==
    LET y == [x EXCEPT !.r.fid = 0, !.r.skipc = 0]
    IN IF y.pe # 0 /\ ~EncFinished(y.enc[y.pe])
       THEN [y EXCEPT !.r.pc = "fpend", !.r.wait = y.pe]
       ELSE FinallyTail([y EXCEPT !.pe = 0])

\* An except branch that leaves the state as it is.
ExceptKeepsState(x) ==
    LET y == [x EXCEPT !.r.exc = "error", !.r.wait = 0]
    IN IF cbSet THEN [y EXCEPT !.r.pc = "xnotify"] ELSE Finally(y)

\* run(), the `except Exception` branch up to `await self._notify_status()`.
\* After it the finally block runs with the exception in flight.
Except(x) ==
    LET y == [x EXCEPT !.state = ERROR, !.r.exc = "error", !.r.wait = 0]
    IN IF cbSet THEN [y EXCEPT !.r.pc = "xnotify"] ELSE Finally(y)

\* CancelledError (not an Exception) leaves the try block: straight to finally.
Cancelled(x) == Finally([x EXCEPT !.r.exc = "cancel"])

\* The generator's own finally clause.
GenClose(x) == [x EXCEPT !.ir = FALSE, !.r.gen = "closed"]

\* SourceManager.read_frame plus the skip logic of frame_generator, from the
\* read to the yield, the retry sleep or the end of the video.  p is the
\* capture position, sc the skip counter, oks the outcomes of the camera reads.
RECURSIVE SeqGenLoop(_, _, _)
SeqGenLoop(p, sc, oks) ==
    IF srcType = "none" THEN [k |-> "raise", pos |-> p, skipc |-> sc]
    ELSE LET ret == CASE srcType = "image" -> TRUE
                      [] srcType = "video" -> p < VideoLen
                      [] OTHER -> Head(oks)
             p2 == IF srcType = "video" /\ ret THEN p + 1 ELSE p
         IN IF ~ret
            THEN [k |-> IF srcType = "video" THEN "eof" ELSE "retry",
                  pos |-> p2, skipc |-> sc]
            ELSE IF skipFrames > 0 /\ sc + 1 <= skipFrames
                 THEN SeqGenLoop(p2, sc + 1, Tail(oks))
                 ELSE [k |-> "yield", pos |-> p2,
                       skipc |-> IF skipFrames > 0 THEN 0 ELSE sc]

\* Outcomes of the reads one generator step can make.
ReadOutcomes == [1..(skipFrames + 1) -> BOOLEAN]

\* _process_frame_pipelined up to its first suspension.  The inference
\* executor exists: initialize() creates it when async inference is on.
Pipelined(x) ==
    IF x.pe = 0 THEN [x EXCEPT !.r.pc = "infer"]
    ELSE IF ~EncFinished(x.enc[x.pe]) THEN [x EXCEPT !.r.pc = "pend", !.r.wait = x.pe]
    ELSE IF x.enc[x.pe].st = "cancelled" THEN Cancelled([x EXCEPT !.pe = 0])
    ELSE [x EXCEPT !.pe = 0, !.r.pc = "infer"]

\* _process_frame with synchronous inference up to the await of the frame
\* callback (when one is registered): detect, predict, render and encode run
\* inline; ok is whether they all returned, n the number of detections.
Sequential(x, ok, n) ==
    IF ~ok THEN Except(x)
    ELSE [x EXCEPT !.dc = @ + n, !.fc = @ + 1,
                   !.r.pc = IF cbSet THEN "send" ELSE "pace"]

\* run(), the body of `async for` for the frame just yielded.
Body(x, ok, n) ==
    IF x.state # RUNNING THEN Finally(x)
    ELSE IF useAsync THEN Pipelined(x)
    ELSE Sequential(x, ok, n)

\* frame_generator from the head of `while self._is_running` to the next
\* suspension of the task.
GenLoop(x, oks, ok, n) ==
    IF ~x.ir THEN Finally([GenClose(x) EXCEPT !.r.eof = TRUE])
    ELSE IF x.ip THEN [x EXCEPT !.r.pc = "gwait"]
    ELSE LET g == SeqGenLoop(x.pos, x.r.skipc, oks)
             y == [x EXCEPT !.pos = g.pos, !.r.skipc = g.skipc]
         IN CASE g.k = "raise" -> Except(GenClose(y))
              [] g.k = "eof"   -> Finally([GenClose(y) EXCEPT !.r.eof = TRUE])
              [] g.k = "retry" -> [y EXCEPT !.r.pc = "gwait"]
              [] OTHER         -> Body([y EXCEPT !.r.fid = @ + 1], ok, n)

\* The frames a generator yields stay within the bound.
WithinBounds(x) == x.r.fid <= MaxFrameId

\* ------------------------------------------------------ the run() task

\* The first __anext__ of the frame generator: without a source it returns
\* before its try block; otherwise it sets the flags and enters the loop.
GenStart(x, oks, ok, n) ==
    IF srcType = "none"
    THEN Finally([x EXCEPT !.r.gen = "closed", !.r.eof = TRUE])
    ELSE GenLoop([x EXCEPT !.ir = TRUE, !.ip = FALSE, !.r.gen = "open",
                           !.r.fid = 0, !.r.skipc = 0], oks, ok, n)

\* run() past its guards: the video is rewound, the state is running, the
\* frame count and the detector's id counter are zero.
RunResetKeepsCounters(x) ==
    [x EXCEPT !.pos = IF srcType = "video" THEN 0 ELSE @, !.state = RUNNING]

RunReset(x) ==
    [x EXCEPT !.pos = IF srcType = "video" THEN 0 ELSE @,
              !.state = RUNNING, !.fc = 0, !.dc = 0]

\* run(): `await self._notify_status()`, then the generator.
RunEnter(x, oks, ok, n) ==
    IF cbSet THEN [x EXCEPT !.r.pc = "notify"] ELSE GenStart(x, oks, ok, n)

\* run() without its first guard, and run() without its second.
RunGuardsReentrant(x, oks, ok, n) ==
    IF ~initialized THEN Done([x EXCEPT !.r.exc = "error"])
    ELSE RunEnter(RunReset(x), oks, ok, n)

RunGuardsUnchecked(x, oks, ok, n) ==
    IF x.state = RUNNING THEN Done(x)
    ELSE RunEnter(RunReset(x), oks, ok, n)

\* run(): a running pipeline returns at once; one without detector or
\* recognizer raises RuntimeError; otherwise the loop is entered.
RunGuards(x, oks, ok, n) ==
    IF x.state = RUNNING THEN Done(x)
    ELSE IF ~initialized THEN Done([x EXCEPT !.r.exc = "error"])
    ELSE RunEnter(RunReset(x), oks, ok, n)

\* run() from its first line to `await self._notify_status()`.
RunStart(t) ==
    /\ run[t].pc = "start"
    /\ ~run[t].cancel
    /\ \E oks \in ReadOutcomes, ok \in BOOLEAN, n \in 1..MaxDet :
        LET z == RunGuards(Ctx(t), oks, ok, n)
        IN WithinBounds(z) /\ Commit(t, z)

\* The status message is out: run() creates the generator and asks it for
\* the first frame.
RunNotified(t) ==
    /\ run[t].pc = "notify"
    /\ ~run[t].cancel
    /\ \E oks \in ReadOutcomes, ok \in BOOLEAN, n \in 1..MaxDet :
        LET z == GenStart(Ctx(t), oks, ok, n)
        IN WithinBounds(z) /\ Commit(t, z)

\* A sleep inside the generator is over (paused poll, camera retry or frame
\* interval): back to the head of its loop.
RunGenWake(t) ==
    /\ run[t].pc = "gwait"
    /\ ~run[t].cancel
    /\ \E oks \in ReadOutcomes, ok \in BOOLEAN, n \in 1..MaxDet :
        LET z == GenLoop(Ctx(t), oks, ok, n)
        IN WithinBounds(z) /\ Commit(t, z)

\* The same for a generator without the break after the frame of an image.
RunPaceDoneNoBreak(t) ==
    /\ run[t].pc = "pace"
    /\ ~run[t].cancel
    /\ LET x == Ctx(t)
           z == CASE srcType = "none" -> Except(GenClose(x))
                  [] OTHER            -> [x EXCEPT !.r.pc = "gwait"]
       IN Commit(t, z)

\* The frame is processed and run()'s pacing sleep is over: the generator
\* resumes after its yield, up to its frame-interval sleep.
RunPaceDone(t) ==
    /\ run[t].pc = "pace"
    /\ ~run[t].cancel
    /\ LET x == Ctx(t)
           z == CASE srcType = "none"  -> Except(GenClose(x))
                  [] srcType = "image" -> Finally([GenClose(x) EXCEPT !.r.eof = TRUE])
                  [] OTHER             -> [x EXCEPT !.r.pc = "gwait"]
       IN Commit(t, z)

\* _process_frame_pipelined: the previous encode task it awaited has ended.
RunPendDone(t) ==
    /\ run[t].pc = "pend"
    /\ ~run[t].cancel
    /\ EncFinished(enc[run[t].wait])
    /\ LET x == [Ctx(t) EXCEPT !.pe = 0, !.r.wait = 0]
           z == IF enc[run[t].wait].st = "cancelled"
                THEN Cancelled(x)
                ELSE [x EXCEPT !.r.pc = "infer"]
       IN Commit(t, z)

\* _process_frame_pipelined: detect and predict have come back from the
\* executor (ok, with n detections) or one of them raised; on success the
\* encode task for this frame is created.
RunInferDone(t) ==
    /\ run[t].pc = "infer"
    /\ ~run[t].cancel
    /\ ~Woken
    /\ \E ok \in BOOLEAN, n \in 1..MaxDet :
        LET x == Ctx(t)
        IN IF ok
           THEN /\ FreeEncs(enc) # {}
                /\ LET e == Min(FreeEncs(enc))
                   IN Commit(t, [x EXCEPT !.dc = @ + n, !.fc = @ + 1, !.pe = e,
                                          !.enc[e] = [st |-> "render", cancel |-> FALSE,
                                                      fid |-> x.r.fid, by |-> t],
                                          !.r.pc = "pace"])
           ELSE Commit(t, Except(x))

\* _process_frame: the frame callback has returned (ok) or raised.
RunSendDone(t) ==
    /\ run[t].pc = "send"
    /\ ~run[t].cancel
    /\ \E ok \in BOOLEAN :
        LET x == Ctx(t)
        IN Commit(t, IF ok THEN [x EXCEPT !.r.pc = "pace"] ELSE Except(x))

\* except branch: the error status is out, `raise`, then the finally block.
RunXNotified(t) ==
    /\ run[t].pc = "xnotify"
    /\ ~run[t].cancel
    /\ Commit(t, Finally(Ctx(t)))

\* finally block: the pending encode task has ended.
RunFPendDone(t) ==
    /\ run[t].pc = "fpend"
    /\ ~run[t].cancel
    /\ EncFinished(enc[run[t].wait])
    /\ Commit(t, FinallyTail([Ctx(t) EXCEPT !.pe = 0, !.r.wait = 0]))

\* finally block: the last status message is out, run() is over.
RunFNotified(t) ==
    /\ run[t].pc = "fnotify"
    /\ ~run[t].cancel
    /\ Commit(t, Done(Ctx(t)))

\* CancelledError is delivered where the task is suspended.  A task that has
\* not started never runs; inside the generator its finally clause runs; the
\* await in run()'s finally block swallows it; inside a status send it ends
\* the task.  A task awaiting an encode task gets it when that task has ended.
RunCancelled(t) ==
    /\ run[t].cancel
    /\ run[t].pc \notin {"free", "done", "gone"}
    /\ run[t].wait # 0 => EncFinished(enc[run[t].wait])
    /\ LET x == [Ctx(t) EXCEPT !.r.cancel = FALSE]
           c == [x EXCEPT !.r.exc = "cancel"]
           z == CASE x.r.pc = "start"   -> Done(c)
                  [] x.r.pc = "notify"  -> Done(c)
                  [] x.r.pc = "fnotify" -> Done(c)
                  [] x.r.pc = "gwait"   -> Cancelled(GenClose(x))
                  [] x.r.pc = "pend"    -> Cancelled([x EXCEPT !.pe = 0, !.r.wait = 0])
                  [] x.r.pc = "fpend"   -> FinallyTail([x EXCEPT !.pe = 0, !.r.wait = 0])
                  [] OTHER              -> Cancelled(x)
       IN Commit(t, z)

\* The done callbacks of a finished run() task have run: whoever awaited it
\* is resumed, and the task stays behind only as the owner of a generator
\* that was left suspended at its yield.
RunReaped(t) ==
    /\ run[t].pc = "done"
    /\ \A c \in Conns : hst[c] = "closing" => rt[c] # t
    /\ Commit(t, [Ctx(t) EXCEPT !.r = [NoRun EXCEPT !.pc = "gone", !.gen = run[t].gen]])

\* The event loop finalizes the generator a finished run() left suspended at
\* its yield: its finally clause runs then.
GenFinalize(t) ==
    /\ run[t].pc = "gone"
    /\ run[t].gen = "open"
    /\ Commit(t, GenClose(Ctx(t)))

\* ------------------------------------------------- the encode-and-send task

\* Write back a change of the encode tasks made outside a run() step.
SetEnc(f) ==
    /\ enc' = Forget(f, pendingEncode, run, stp)
    /\ noop' = "none" /\ preview' = "none" /\ UNCHANGED evars
    /\ UNCHANGED <<pvars, svars, run, hvars>>

\* _render_and_encode has come back from the executor (ok) or raised; the
\* frame is then handed to the frame callback when one is registered.
EncRendered(e) ==
    /\ enc[e].st = "render"
    /\ ~enc[e].cancel
    /\ \E ok \in BOOLEAN :
        LET f == [enc EXCEPT ![e].st = IF ~ok THEN "failed"
                                      ELSE IF cbSet THEN "send" ELSE "done"]
            t == enc[e].by
        IN /\ enc' = Forget(f, pendingEncode, run, stp)
           /\ run' = IF ok /\ cbSet /\ t # 0
                     THEN [run EXCEPT ![t].last = enc[e].fid]
                     ELSE run
           /\ noop' = "none" /\ preview' = "none" /\ UNCHANGED evars
           /\ UNCHANGED <<pvars, svars, hvars>>

\* The frame callback has returned (ok) or raised: the task is over.
EncSent(e) ==
    /\ enc[e].st = "send"
    /\ ~enc[e].cancel
    /\ \E ok \in BOOLEAN :
        SetEnc([enc EXCEPT ![e].st = IF ok THEN "done" ELSE "failed"])

\* CancelledError is delivered to the encode task: it ends cancelled.
EncCancelled(e) ==
    /\ enc[e].cancel
    /\ ~EncFinished(enc[e])
    /\ enc[e].st # "free"
    /\ SetEnc([enc EXCEPT ![e].st = "cancelled", ![e].cancel = FALSE])

\* task.cancel() on an encode task: a request, unless the task is over.
CancelEnc(f, e) ==
    IF e # 0 /\ ~EncFinished(f[e]) /\ f[e].st # "free"
    THEN [f EXCEPT ![e].cancel = TRUE]
    ELSE f

\* task.cancel() on a run() task: a request on the task, forwarded to the
\* encode task it is awaiting.
CancelRunIn(rn, t) ==
    IF rn[t].pc \in {"free", "done", "gone"} THEN rn ELSE [rn EXCEPT ![t].cancel = TRUE]

CancelRunEnc(f, t) ==
    IF run[t].pc \in {"free", "done", "gone"} THEN f ELSE CancelEnc(f, run[t].wait)

\* ------------------------------------------------------- the event loop

\* A wake-up the loop has scheduled itself (call_soon) and not yet run: the
\* first step of a new task, the delivery of a cancel request, the done
\* callbacks of a finished task, the resumption of a coroutine whose awaited
\* task has ended.
Scheduled ==
    \/ \E t \in Tasks :
        \/ run[t].pc \in {"start", "done"}
        \/ run[t].cancel /\ run[t].wait = 0
        \/ run[t].wait # 0 /\ EncFinished(enc[run[t].wait])
    \/ \E e \in Encs : enc[e].cancel /\ ~EncFinished(enc[e])
    \/ \E c \in Callers : stp[c].pc = "senc" /\ EncFinished(enc[stp[c].wait])

\* The loop runs what it has scheduled before it polls for new I/O, so a
\* request or a client message is handled with no such wake-up outstanding.
Quiet == ~Scheduled

\* ------------------------------------------------------- Pipeline.stop()

\* self._source_manager.stop() reaches every generator that is in its loop.
Halt(rn) ==
    [t \in Tasks |-> IF rn[t].gen = "open" /\ rn[t].pc \notin {"free", "done", "gone"}
                     THEN [rn[t] EXCEPT !.halt = TRUE]
                     ELSE rn[t]]

\* stop() from its first line to its first suspension: the await of the
\* cancelled encode task, else the status send, else (no callback) its end.
StopBegin(c) ==
    LET e == pendingEncode
        waits == e # 0 /\ ~EncFinished(enc[e])
        sp == [stp EXCEPT ![c] =
                  IF waits THEN [pc |-> "senc", wait |-> e, from |-> state, msg |-> "none"]
                  ELSE IF cbSet THEN [pc |-> "snotify", wait |-> 0, from |-> state,
                                      msg |-> IDLE]
                  ELSE NoStop]
    IN /\ stp[c].pc = "none"
       /\ noop' = "none" /\ preview' = "none" /\ UNCHANGED evars
       /\ state' = IDLE
       /\ isRunning' = FALSE
       /\ pendingEncode' = IF waits THEN e ELSE 0
       /\ stp' = sp
       /\ run' = Halt(run)
       /\ enc' = Forget(CancelEnc(enc, e), pendingEncode', run, sp)
       /\ UNCHANGED <<initialized, useAsync, skipFrames, frameCount, detCounter,
                      cbSet, isPaused, pos>>

\* stop(): the cancelled encode task has ended; _pending_encode = None, then
\* the status send.
StopEncDone(c) ==
    LET sp == [stp EXCEPT ![c] = IF cbSet THEN [@ EXCEPT !.pc = "snotify", !.wait = 0,
                                                         !.msg = state]
                                 ELSE NoStop]
    IN /\ stp[c].pc = "senc"
       /\ noop' = "none" /\ preview' = "none" /\ UNCHANGED evars
       /\ EncFinished(enc[stp[c].wait])
       /\ pendingEncode' = 0
       /\ stp' = sp
       /\ enc' = Forget(enc, 0, run, sp)
       /\ UNCHANGED <<state, initialized, useAsync, skipFrames, frameCount,
                      detCounter, cbSet, svars, run, hst, rt, rest>>

\* SourceManager.get_first_frame: the image, or frame 0 of the video; None
\* for a camera and without a source.
FirstFrame == IF srcType \in {"image", "video"} THEN srcType ELSE "none"

\* stop(): the status message is out; with a frame of the source to show,
\* the preview message (frame_id 0, no detections, no emotions) is handed
\* to the base64 frame callback in a task of its own, and stop() returns.
StopReturn(c) ==
    /\ stp[c].pc = "snotify"
    /\ stp' = [stp EXCEPT ![c] = NoStop]
    /\ noop' = "none"
    /\ preview' = FirstFrame /\ UNCHANGED evars

\* A pause() without its state test.
PauseAnyState(c) ==
    /\ stp[c].pc = "none"
    /\ state' = PAUSED
    /\ isPaused' = TRUE
    /\ stp' = [stp EXCEPT ![c] = IF cbSet
                                 THEN [pc |-> "pnotify", wait |-> 0, from |-> state,
                                               msg |-> PAUSED]
                                 ELSE NoStop]
    /\ noop' = IF state = RUNNING THEN "none" ELSE "pause"
    /\ preview' = "none" /\ UNCHANGED evars
    /\ UNCHANGED <<initialized, useAsync, skipFrames, frameCount, detCounter,
                   pendingEncode, cbSet, srcType, isRunning, pos, tvars, rt, rest>>

\* pause() called by c, up to its status send or, outside the running state
\* or without a status callback, to its end.
Pause(c) ==
    /\ stp[c].pc = "none"
    /\ IF state = RUNNING
       THEN /\ state' = PAUSED
            /\ isPaused' = TRUE
            /\ stp' = [stp EXCEPT ![c] = IF cbSet
                                         THEN [pc |-> "pnotify", wait |-> 0, from |-> state,
                                               msg |-> PAUSED]
                                         ELSE NoStop]
            /\ noop' = "none" /\ preview' = "none" /\ UNCHANGED evars
       ELSE /\ UNCHANGED <<state, isPaused, stp>>
            /\ noop' = "pause" /\ preview' = "none" /\ UNCHANGED evars
    /\ UNCHANGED <<initialized, useAsync, skipFrames, frameCount, detCounter,
                   pendingEncode, cbSet, srcType, isRunning, pos, tvars, rt, rest>>

\* resume() called by c, likewise.
Resume(c) ==
    /\ stp[c].pc = "none"
    /\ IF state = PAUSED
       THEN /\ state' = RUNNING
            /\ isPaused' = FALSE
            /\ stp' = [stp EXCEPT ![c] = IF cbSet
                                         THEN [pc |-> "pnotify", wait |-> 0, from |-> state,
                                               msg |-> RUNNING]
                                         ELSE NoStop]
            /\ noop' = "none" /\ preview' = "none" /\ UNCHANGED evars
       ELSE /\ UNCHANGED <<state, isPaused, stp>>
            /\ noop' = "resume" /\ preview' = "none" /\ UNCHANGED evars
    /\ UNCHANGED <<initialized, useAsync, skipFrames, frameCount, detCounter,
                   pendingEncode, cbSet, srcType, isRunning, pos, tvars, rt, rest>>

\* The status message of pause() or resume() is out: the call returns.
Notified(c) ==
    /\ stp[c].pc = "pnotify"
    /\ stp' = [stp EXCEPT ![c] = NoStop]
    /\ noop' = "none" /\ preview' = "none" /\ UNCHANGED evars
    /\ UNCHANGED <<pvars, svars, tvars, hst, rt, rest>>

\* ------------------------------------------------ websocket_stream handler

\* A client connects: the handler gets the pipeline (constructed and
\* initialized on first use) and registers its callbacks.
WsConnect(c) ==
    /\ Quiet
    /\ hst[c] = "new"
    /\ hst' = [hst EXCEPT ![c] = "open"]
    /\ initialized' = TRUE
    /\ cbSet' = TRUE
    /\ noop' = "none" /\ preview' = "none" /\ UNCHANGED evars
    /\ UNCHANGED <<state, useAsync, skipFrames, frameCount, detCounter,
                   pendingEncode, svars, tvars, rt, stp, rest>>

\* {"action": "start"}: a run() task is created when a source is open and
\* the handler has no unfinished task of its own.
WsStart(c) ==
    /\ Quiet
    /\ hst[c] = "open"
    /\ stp[c].pc = "none"
    /\ srcType # "none"
    /\ rt[c] = 0
    /\ FreeRuns # {}
    /\ LET t == Min(FreeRuns)
       IN /\ run' = [run EXCEPT ![t] = [NoRun EXCEPT !.pc = "start"]]
          /\ rt' = [rt EXCEPT ![c] = t]
    /\ noop' = "none" /\ preview' = "none" /\ UNCHANGED evars
    /\ UNCHANGED <<pvars, svars, enc, hst, stp, rest>>

\* {"action": "stop"}: the handler enters `await pipeline.stop()`.
WsStop(c) ==
    /\ Quiet
    /\ hst[c] = "open"
    /\ stp[c].pc = "none"
    /\ StopBegin(c)
    /\ hst' = [hst EXCEPT ![c] = "stop"]
    /\ UNCHANGED <<srcType, rt, rest>>

\* A handler that cancels its task after stop() and keeps holding it.
WsStoppedKeepsTask(c) ==
    /\ hst[c] = "stop"
    /\ StopReturn(c)
    /\ hst' = [hst EXCEPT ![c] = "open"]
    /\ LET rn == IF rt[c] # 0 THEN CancelRunIn(run, rt[c]) ELSE run
           f  == IF rt[c] # 0 THEN CancelRunEnc(enc, rt[c]) ELSE enc
       IN run' = Settle(rn, rt) /\ enc' = f
    /\ UNCHANGED <<pvars, svars, rt, rest>>

\* stop() has returned: the handler cancels its unfinished task and forgets it.
WsStopped(c) ==
    /\ hst[c] = "stop"
    /\ StopReturn(c)
    /\ hst' = [hst EXCEPT ![c] = "open"]
    /\ rt' = [rt EXCEPT ![c] = 0]
    /\ LET rn == IF rt[c] # 0 THEN CancelRunIn(run, rt[c]) ELSE run
           f  == IF rt[c] # 0 THEN CancelRunEnc(enc, rt[c]) ELSE enc
       IN /\ run' = Settle(rn, rt')
          /\ enc' = Forget(f, pendingEncode, Settle(rn, rt'), stp')
    /\ UNCHANGED <<pvars, svars, rest>>

\* {"action": "pause"}: the handler is inside `await pipeline.pause()` until
\* that returns.
WsPause(c) ==
    /\ Quiet
    /\ hst[c] = "open"
    /\ Pause(c)
    /\ UNCHANGED hst

\* {"action": "resume"}
WsResume(c) ==
    /\ Quiet
    /\ hst[c] = "open"
    /\ Resume(c)
    /\ UNCHANGED hst

\* running_task and not running_task.done()
Unfinished(c) == rt[c] # 0 /\ run[rt[c]].pc \notin {"free", "done", "gone"}

\* The receive loop of the handler is left by an exception: the finally
\* block cancels the handler's unfinished task and waits for it, or goes
\* straight to manager.disconnect.
HandlerEnds(c) ==
    /\ hst' = [hst EXCEPT ![c] = IF Unfinished(c) THEN "closing" ELSE "closed"]
    /\ LET rn == IF rt[c] # 0 THEN CancelRunIn(run, rt[c]) ELSE run
           f  == IF rt[c] # 0 THEN CancelRunEnc(enc, rt[c]) ELSE enc
       IN run' = rn /\ enc' = f
    /\ preview' = "none" /\ UNCHANGED evars
    /\ UNCHANGED <<pvars, svars, rt, stp, rest>>

\* The client goes away: receive_text raises WebSocketDisconnect.
WsDisconnect(c) ==
    /\ Quiet
    /\ hst[c] = "open"
    /\ stp[c].pc = "none"
    /\ HandlerEnds(c)
    /\ noop' = "none"

\* The text messages that carry no recognized action: text that is not
\* JSON, a JSON object with another action or none, and a JSON value that
\* is not an object (a list, a number, a string, null).
Garbage == {"malformed", "noaction", "nonobject"}

\* Such a message is received.  json.loads raises JSONDecodeError, which is
\* passed over; an object matches no branch; on any other value msg.get
\* raises AttributeError, which only the handler's outermost except takes.
WsOther(c, m) ==
    /\ Quiet
    /\ hst[c] = "open"
    /\ stp[c].pc = "none"
    /\ noop' = "message"
    /\ IF m = "nonobject"
       THEN HandlerEnds(c)
       ELSE /\ preview' = "none" /\ UNCHANGED evars
            /\ UNCHANGED <<pvars, svars, tvars, hvars>>

\* The task the finally block awaits has ended.  wait_for returns its
\* outcome: CancelledError is passed over and manager.disconnect ends the
\* handler; any other exception of run() leaves the finally block there,
\* before manager.disconnect.
WsClosed(c) ==
    /\ hst[c] = "closing"
    /\ run[rt[c]].pc = "done"
    /\ hst' = [hst EXCEPT ![c] = IF run[rt[c]].exc = "error" THEN "raised" ELSE "closed"]
    /\ rt' = [rt EXCEPT ![c] = 0]
    /\ run' = Settle(run, rt')
    /\ enc' = Forget(enc, pendingEncode, run', stp)
    /\ noop' = "none" /\ preview' = "none" /\ UNCHANGED evars
    /\ UNCHANGED <<pvars, svars, stp, rest>>

\* ------------------------------------------------------ REST source routes

\* What an open request can leave behind: a source of a kind, or none
\* when the file or the camera cannot be opened.
OpenKinds == SourceType \cup {"none"}

\* SourceManager.open_image / open_video / open_camera: close() first, then
\* the new source; SourceManager.close() alone for kind "none".
OpenSource(k) ==
    /\ srcType' = k
    /\ isRunning' = FALSE
    /\ pos' = 0
    /\ UNCHANGED isPaused

\* POST /upload and POST /camera: stop the pipeline when it is running,
\* then open the source.
RestOpen(k) ==
    /\ Quiet
    /\ rest = "idle"
    /\ stp["rest"].pc = "none"
    /\ IF state = RUNNING
       THEN /\ StopBegin("rest")
            /\ rest' = "stop"
            /\ UNCHANGED <<srcType, hst, rt>>
       ELSE /\ OpenSource(k)
            /\ initialized' = TRUE
            /\ noop' = "none" /\ preview' = "none" /\ UNCHANGED evars
            /\ UNCHANGED <<state, useAsync, skipFrames, frameCount, detCounter,
                           pendingEncode, cbSet, tvars, hvars>>

\* stop() has returned to the route: the source is opened.
RestOpened(k) ==
    /\ rest = "stop"
    /\ StopReturn("rest")
    /\ OpenSource(k)
    /\ rest' = "idle"
    /\ UNCHANGED <<pvars, tvars, hst, rt>>

\* DELETE /close
RestClose ==
    /\ Quiet
    /\ rest = "idle"
    /\ srcType # "none"
    /\ OpenSource("none")
    /\ initialized' = TRUE
    /\ noop' = "none" /\ preview' = "none" /\ UNCHANGED evars
    /\ UNCHANGED <<state, useAsync, skipFrames, frameCount, detCounter,
                   pendingEncode, cbSet, tvars, hvars>>

\* ----------------------------------------------------- REST control routes

\* POST /start, /stop, /pause and /resume
Controls == {"start", "stop", "pause", "resume"}

\* Control routes that answer 200 whatever the source is.
ControlStatusAnySource(req) ==
    CASE req = "start"  -> IF state = RUNNING THEN 400 ELSE 200
      [] req = "pause"  -> IF state # RUNNING THEN 400 ELSE 200
      [] req = "resume" -> IF state # PAUSED THEN 400 ELSE 200
      [] OTHER          -> 200

\* The status code of the answer: HTTPException(400) from the state and
\* source tests of the route, else 200.
ControlStatus(req) ==
    CASE req = "start"  -> IF state = RUNNING \/ srcType = "none" THEN 400 ELSE 200
      [] req = "pause"  -> IF state # RUNNING THEN 400 ELSE 200
      [] req = "resume" -> IF state # PAUSED THEN 400 ELSE 200
      [] OTHER          -> 200

\* The answer of a control route as the monitor records it.
Answer(req, code) ==
    CASE req = "start"  -> IF code = 400 THEN "start 400" ELSE "start 200"
      [] req = "pause"  -> IF code = 400 THEN "pause 400" ELSE "pause 200"
      [] req = "resume" -> IF code = 400 THEN "resume 400" ELSE "resume 200"
      [] OTHER          -> IF code = 400 THEN "stop 400" ELSE "stop 200"

\* A control request.  get_pipeline constructs and initializes the pipeline
\* if there is none; the route tests the state and answers.  Past the tests
\* /start does nothing, and /stop, /pause and /resume call the coroutine
\* function without awaiting it, so that no line of stop(), pause() or
\* resume() runs.
RestControl(req) ==
    /\ Quiet
    /\ initialized' = TRUE
    /\ noop' = Answer(req, ControlStatus(req))
    /\ preview' = "none" /\ UNCHANGED evars
    /\ UNCHANGED <<state, useAsync, skipFrames, frameCount, detCounter,
                   pendingEncode, cbSet, svars, tvars, hvars>>

\* ---------------------------------------------------- ConnectionManager

\* The state every step of the broadcast layer leaves alone.
Above == <<pvars, svars, tvars, hvars, noop, preview, gvars, cvars, mvars>>

\* manager.connect: the websocket is accepted and added to _connections.
Connect(w) ==
    /\ sock[w] = "new"
    /\ sock' = [sock EXCEPT ![w] = "open"]
    /\ connections' = connections \cup {w}
    /\ UNCHANGED <<bcast, wire, Above>>

\* The client of w goes away: a send to w raises from now on, and the
\* handler, waiting in receive_text, ends with manager.disconnect.
Disconnect(w) ==
    /\ sock[w] = "open"
    /\ sock' = [sock EXCEPT ![w] = "closed"]
    /\ connections' = connections \ {w}
    /\ UNCHANGED <<bcast, wire, Above>>

\* The message a call of send_text or send_bytes puts on w, if w is open.
Put(wr, w, m) ==
    IF sock[w] = "open" THEN [wr EXCEPT ![w] = IF m = "header" THEN m ELSE "none"]
    ELSE wr

\* `for conn in self._connections`, one step of the set iterator for the
\* broadcast b of sender s.  The iterator raises RuntimeError when the set
\* has changed its size, and the broadcast ends there; otherwise it yields a
\* websocket not yet visited, and may pass over one added after the loop
\* began.  At the end of the loop the websockets whose send raised are
\* discarded.
Iterate(s, b) ==
    LET first == IF s = "frame" THEN "header" ELSE "text"
        cand  == connections \ (b.got \cup b.disc)
    IN IF Cardinality(connections) # Cardinality(b.start)
       THEN /\ bcast' = [bcast EXCEPT ![s] = NoCast]
            /\ UNCHANGED <<connections, wire>>
       ELSE \/ \E w \in cand :
                /\ bcast' = [bcast EXCEPT ![s] = [b EXCEPT !.pc = first, !.at = w]]
                /\ wire' = Put(wire, w, first)
                /\ UNCHANGED connections
            \/ /\ cand \cap b.start = {}
               /\ bcast' = [bcast EXCEPT ![s] = NoCast]
               /\ connections' = connections \ b.disc
               /\ UNCHANGED wire

\* ConnectionManager.broadcast (s = "text") or broadcast_binary_frame
\* (s = "frame") is called with a client connected, up to its first send.
Broadcast(s) ==
    /\ bcast[s].pc \in {"idle", "cancelled"}
    /\ connections # {}
    /\ Iterate(s, [NoCast EXCEPT !.start = connections])
    /\ UNCHANGED <<sock, Above>>

\* The websockets a broadcast suspended in a send has served once that send
\* has returned.
Served(b) == IF sock[b.at] = "open" THEN b.got \cup {b.at} ELSE b.got

\* The send a broadcast is suspended in returns, or raises when the
\* websocket is closed: the bytes follow the header, the next websocket
\* follows the last send to this one.
SendDone(s) ==
    LET b  == bcast[s]
        w  == b.at
        ok == sock[w] = "open"
    IN /\ b.pc \in {"text", "header", "bytes"}
       /\ IF b.pc = "header" /\ ok
          THEN /\ bcast' = [bcast EXCEPT ![s].pc = "bytes"]
               /\ wire' = Put(wire, w, "bytes")
               /\ UNCHANGED connections
          ELSE Iterate(s, [b EXCEPT !.got  = Served(b),
                                    !.disc = IF ok THEN @ ELSE @ \cup {w}])
       /\ UNCHANGED <<sock, Above>>

\* stop() cancels the encode task while it is inside the frame callback:
\* CancelledError is no Exception, so the broadcast is abandoned where it is.
CancelFrame ==
    /\ bcast["frame"].pc \in {"header", "bytes"}
    /\ bcast' = [bcast EXCEPT !["frame"] = [NoCast EXCEPT !.pc = "cancelled"]]
    /\ UNCHANGED <<connections, sock, wire, Above>>

\* The connection manager with its clients coming and going, an encode
\* task sending frames and another coroutine sending status or stats.
NextBroadcast ==
    \/ \E w \in Sockets : Connect(w) \/ Disconnect(w)
    \/ \E s \in Senders : Broadcast(s) \/ SendDone(s)
    \/ CancelFrame

SpecBroadcast == Init /\ [][NextBroadcast]_vars

\* ---------------------------------------------------- the server as a whole

\* The steps of a run() task in every configuration.
LoopStep(t) ==
    \/ RunStart(t)
    \/ RunGenWake(t)
    \/ RunPaceDone(t)
    \/ RunReaped(t)
    \/ GenFinalize(t)

\* Its steps after a send through a registered callback.
SentStep(t) ==
    \/ RunNotified(t)
    \/ RunSendDone(t)
    \/ RunXNotified(t)
    \/ RunFNotified(t)

\* Its steps with async inference, and those of the encode tasks.
PipelinedStep ==
    \/ \E t \in Tasks :
        \/ RunPendDone(t)
        \/ RunInferDone(t)
        \/ RunFPendDone(t)
    \/ \E e \in Encs :
        \/ EncRendered(e)
        \/ EncCancelled(e)
    \/ \E c \in Callers : StopEncDone(c)

\* What one client's handler does.
ClientStep(c) ==
    \/ WsConnect(c)
    \/ WsStart(c)
    \/ WsStop(c)
    \/ WsStopped(c)
    \/ WsPause(c)
    \/ WsResume(c)
    \/ Notified(c)
    \/ WsDisconnect(c)
    \/ WsClosed(c)

\* The REST requests on the source.
RestStep ==
    \/ \E k \in OpenKinds : RestOpen(k)
    \/ \E k \in OpenKinds : RestOpened(k)
    \/ RestClose

\* One streaming client and the REST source routes.
Next ==
    \/ \E t \in Tasks : LoopStep(t) \/ SentStep(t) \/ RunCancelled(t)
    \/ PipelinedStep
    \/ \E e \in Encs : EncSent(e)
    \/ ClientStep("c1")
    \/ \E m \in Garbage : WsOther("c1", m)
    \/ RestStep

Spec == Init /\ [][Next]_vars

\* One streaming client and the REST source and control routes, the pipeline
\* configured with async_inference off.
InitRest == Init /\ ~useAsync

NextRest ==
    \/ \E t \in Tasks : LoopStep(t) \/ SentStep(t) \/ RunCancelled(t)
    \/ ClientStep("c1")
    \/ RestStep
    \/ \E req \in Controls : RestControl(req)

SpecRest == InitRest /\ [][NextRest]_vars

\* Two streaming clients of the one pipeline, configured with async_inference
\* off, on a video that was opened before either connected and stays open.
InitShared == InitWith("video", TRUE) /\ ~useAsync

NextShared ==
    \/ \E t \in Tasks : LoopStep(t) \/ SentStep(t) \/ RunCancelled(t)
    \/ \E c \in Conns : ClientStep(c)

SpecShared == InitShared /\ [][NextShared]_vars

\* One streaming client of a pipeline with async_inference off, on a source
\* of any kind opened before it connected, with skip_frames up to MaxSkipped.
InitSequential ==
    /\ \E k \in SourceType : InitSkipping(k, TRUE, 0..MaxSkipped)
    /\ ~useAsync

NextSequential ==
    \/ \E t \in Tasks : LoopStep(t) \/ SentStep(t) \/ RunCancelled(t)
    \/ ClientStep("c1")

SpecSequential == InitSequential /\ [][NextSequential]_vars

\* Two streaming clients of the one pipeline as it is configured by default,
\* with async_inference on, on a video opened before either connected; the
\* clients start, the first one also pauses a running pipeline while the
\* second holds no run() task, and neither stops or leaves.
InitPipelined == InitWith("video", TRUE) /\ useAsync

NextPipelined ==
    \/ \E t \in Tasks :
        \/ LoopStep(t)
        \/ RunNotified(t)
        \/ RunXNotified(t)
        \/ RunFNotified(t)
        \/ RunPendDone(t)
        \/ RunInferDone(t)
        \/ RunFPendDone(t)
    \/ \E e \in Encs : EncRendered(e) \/ EncSent(e)
    \/ \E c \in Conns : WsConnect(c) \/ WsStart(c)
    \/ state = RUNNING /\ rt["c2"] = 0 /\ WsPause("c1")
    \/ Notified("c1")

SpecPipelined == InitPipelined /\ [][NextPipelined]_vars

\* ------------------------------------------- a program driving a Pipeline

\* Pipeline.initialize()
ApiInitialize ==
    /\ ~initialized
    /\ initialized' = TRUE
    /\ noop' = "none" /\ preview' = "none" /\ UNCHANGED evars
    /\ UNCHANGED <<state, useAsync, skipFrames, frameCount, detCounter,
                   pendingEncode, cbSet, svars, tvars, hvars>>

\* Pipeline.set_callbacks with frame, stats and status callbacks
ApiSetCallbacks ==
    /\ ~cbSet
    /\ cbSet' = TRUE
    /\ noop' = "none" /\ preview' = "none" /\ UNCHANGED evars
    /\ UNCHANGED <<state, initialized, useAsync, skipFrames, frameCount, detCounter,
                   pendingEncode, svars, tvars, hvars>>

\* pipeline.source_manager.open_image / open_video / open_camera / close
ApiOpen(k) ==
    /\ OpenSource(k)
    /\ noop' = "none" /\ preview' = "none" /\ UNCHANGED evars
    /\ UNCHANGED <<pvars, tvars, hvars>>

\* The program calls run() and holds the result until it is done.
ApiRun ==
    /\ rt["api"] = 0
    /\ FreeRuns # {}
    /\ LET t == Min(FreeRuns)
       IN /\ run' = [run EXCEPT ![t] = [NoRun EXCEPT !.pc = "start"]]
          /\ rt' = [rt EXCEPT !["api"] = t]
    /\ noop' = "none" /\ preview' = "none" /\ UNCHANGED evars
    /\ UNCHANGED <<pvars, svars, enc, hst, stp, rest>>

\* The program calls pause(), resume() or stop(), one call at a time.
ApiPause ==
    /\ Pause("api")
    /\ UNCHANGED hst

ApiResume ==
    /\ Resume("api")
    /\ UNCHANGED hst

ApiStop ==
    /\ StopBegin("api")
    /\ UNCHANGED <<srcType, hst, rt, rest>>

ApiStopped ==
    /\ StopReturn("api")
    /\ UNCHANGED <<pvars, svars, tvars, hst, rt, rest>>

\* A Pipeline object used directly, as tests/test_pipeline.py uses it:
\* initialize() and set_callbacks() are the program's to call.
NextApi ==
    \/ \E t \in Tasks : LoopStep(t) \/ SentStep(t)
    \/ PipelinedStep
    \/ \E e \in Encs : EncSent(e)
    \/ ApiInitialize
    \/ ApiSetCallbacks
    \/ \E k \in OpenKinds : ApiOpen(k)
    \/ ApiRun
    \/ ApiPause
    \/ ApiResume
    \/ Notified("api")
    \/ ApiStop
    \/ ApiStopped

SpecApi == Init /\ [][NextApi]_vars

\* ===================================================================
\* Properties
\* ===================================================================

\* Where a run() task is inside its frame loop: the generator is created and
\* the task is pulling, processing or pacing a frame.
LoopPcs == {"gwait", "pace", "pend", "infer", "send"}

\* --------------------------------------------- SourceManager in detail

\* The files and cameras a source can be opened from.
Names == {"s1", "s2"}

\* What open_image, open_video and open_camera can meet.
ImageOutcomes  == {"missing", "unreadable", "ok"}
VideoOutcomes  == {"missing", "unopened", "ok"}
CameraOutcomes == {"unopened", "ok"}

\* The state the steps of the source manager leave alone.
Beside == <<pvars, tvars, hvars, noop, preview, bvars, cvars, mvars>>

\* SourceManager.close() followed by the assignments of an open_* call:
\* stop(), the capture released, frame, info and queue cleared, then the
\* fields the call sets.  The read executor is shut down without waiting,
\* so a read_frame under way in its thread goes on.
CloseAnd(k, nm, cap, cur) ==
    /\ isRunning' = FALSE
    /\ srcType' = k
    /\ srcName' = nm
    /\ capture' = cap
    /\ currentFrame' = cur
    /\ frameQueue' = <<>>
    /\ pos' = 0
    /\ UNCHANGED isPaused

\* The n-th frame of the source nm.
Frame(nm, i) == [src |-> nm, n |-> i]

\* open_image(p): close(), then the image read; False when the file is
\* missing or unreadable.
OpenImage(p, o) ==
    /\ IF o = "ok"
       THEN CloseAnd("image", p, "none", Frame(p, 1))
       ELSE CloseAnd("none", "none", "none", NoFrame)
    /\ opened' = [name |-> p, kind |-> "image", ret |-> IF o = "ok" THEN "true" ELSE "false"]
    /\ UNCHANGED <<agen, reader, thread, Beside>>

\* open_video(p): close(), then the capture; False when the file is missing
\* or the capture does not open (the VideoCapture stays assigned); the first
\* frame is kept when it can be read.
OpenVideo(p, o, first) ==
    /\ CASE o = "ok"       -> CloseAnd("video", p, "open",
                                       IF first THEN Frame(p, 1) ELSE NoFrame)
         [] o = "unopened" -> CloseAnd("none", "none", "dead", NoFrame)
         [] OTHER          -> CloseAnd("none", "none", "none", NoFrame)
    /\ opened' = [name |-> p, kind |-> "video", ret |-> IF o = "ok" THEN "true" ELSE "false"]
    /\ UNCHANGED <<agen, reader, thread, Beside>>

\* open_camera(p): close(), then the capture; False when it does not open.
OpenCamera(p, o) ==
    /\ IF o = "ok"
       THEN CloseAnd("camera", p, "open", NoFrame)
       ELSE CloseAnd("none", "none", "dead", NoFrame)
    /\ opened' = [name |-> p, kind |-> "camera", ret |-> IF o = "ok" THEN "true" ELSE "false"]
    /\ UNCHANGED <<agen, reader, thread, Beside>>

\* SourceManager.close()
CloseSource ==
    /\ srcType # "none" \/ capture # "none"
    /\ CloseAnd("none", "none", "none", NoFrame)
    /\ opened' = NoOpen
    /\ UNCHANGED <<agen, reader, thread, Beside>>

\* SourceManager.stop()
SmStop ==
    /\ isRunning
    /\ isRunning' = FALSE
    /\ opened' = NoOpen
    /\ UNCHANGED <<srcType, isPaused, pos, srcName, capture, currentFrame,
                   frameQueue, agen, reader, thread, Beside>>

\* SourceManager.pause()
SmPause ==
    /\ ~isPaused
    /\ isPaused' = TRUE
    /\ opened' = NoOpen
    /\ UNCHANGED <<srcType, isRunning, pos, srcName, capture, currentFrame,
                   frameQueue, agen, reader, thread, Beside>>

\* SourceManager.resume()
SmResume ==
    /\ isPaused
    /\ isPaused' = FALSE
    /\ opened' = NoOpen
    /\ UNCHANGED <<srcType, isRunning, pos, srcName, capture, currentFrame,
                   frameQueue, agen, reader, thread, Beside>>

\* ---------------------------------------- frame_generator_adaptive

\* The finally block of the generator: the reader task is cancelled and
\* awaited, then _is_running cleared.  A reader task already over is awaited
\* without suspending.
GenFinally(g, running, q, rd) ==
    IF rd.pc \in {"none", "done"}
    THEN [g |-> NoGen, running |-> FALSE, q |-> q, rd |-> NoReader]
    ELSE [g |-> [g EXCEPT !.pc = "fin"], running |-> running, q |-> q,
          rd |-> [rd EXCEPT !.cancel = TRUE]]

\* One pass of the consumer loop from the while test to the next suspension:
\* out when _is_running is off, a sleep while paused or when the queue is
\* empty, else the newest frame taken, the queue cleared, and the yield.
AdaptiveLoop(g, running, paused, q, rd) ==
    IF ~running THEN GenFinally(g, running, q, rd)
    ELSE IF paused \/ q = <<>>
    THEN [g |-> [g EXCEPT !.pc = "sleep"], running |-> running, q |-> q, rd |-> rd]
    ELSE [g |-> [pc |-> "yield", fid |-> g.fid + 1, last |-> q[Len(q)]],
          running |-> running, q |-> <<>>, rd |-> rd]

\* The generator goes on to the point out.
GenGoes(out) ==
    /\ out.g.fid <= MaxFrameId
    /\ agen' = out.g
    /\ isRunning' = out.running
    /\ frameQueue' = out.q
    /\ reader' = out.rd

\* run() takes a new adaptive generator and asks it for its first frame
\* (having sought a video back to its start): the flags are set, the reader
\* task created, and the loop entered.  One generator is in use at a time.
AdaptiveStart ==
    /\ agen.pc = "none"
    /\ srcType # "none"
    /\ isPaused' = FALSE
    /\ pos' = IF srcType = "video" THEN 0 ELSE pos
    /\ GenGoes(AdaptiveLoop(NoGen, TRUE, FALSE, frameQueue,
                            [NoReader EXCEPT !.pc = "start"]))
    /\ opened' = NoOpen
    /\ UNCHANGED <<srcType, srcName, capture, currentFrame, thread, Beside>>

\* A sleep of the generator is over.
AdaptiveWake ==
    /\ agen.pc = "sleep"
    /\ GenGoes(AdaptiveLoop(agen, isRunning, isPaused, frameQueue, reader))
    /\ UNCHANGED <<srcType, isPaused, pos, srcName, capture, currentFrame,
                   thread, opened, Beside>>

\* The consumer asks for the next frame: an image source ends the loop (and
\* so does the exception of source_info being None), else the pacing sleep,
\* or none when the consumer took longer than the frame interval.
AdaptiveNext ==
    /\ agen.pc = "yield"
    /\ IF srcType \in {"image", "none"}
       THEN GenGoes(GenFinally(agen, isRunning, frameQueue, reader))
       ELSE \/ GenGoes([g |-> [agen EXCEPT !.pc = "sleep"], running |-> isRunning,
                        q |-> frameQueue, rd |-> reader])
            \/ GenGoes(AdaptiveLoop(agen, isRunning, isPaused, frameQueue, reader))
    /\ UNCHANGED <<srcType, isPaused, pos, srcName, capture, currentFrame,
                   thread, opened, Beside>>

\* The consumer has left its loop or was cancelled: the generator is closed
\* where it is suspended and runs its finally block.
AdaptiveClose ==
    /\ agen.pc \in {"yield", "sleep"}
    /\ GenGoes(GenFinally(agen, isRunning, frameQueue, reader))
    /\ UNCHANGED <<srcType, isPaused, pos, srcName, capture, currentFrame,
                   thread, opened, Beside>>

\* The awaited reader task is over: _is_running is cleared and the
\* generator ends.
AdaptiveFinDone ==
    /\ agen.pc = "fin"
    /\ reader.pc = "done"
    /\ agen' = NoGen
    /\ reader' = NoReader
    /\ isRunning' = FALSE
    /\ UNCHANGED <<srcType, isPaused, pos, srcName, capture, currentFrame,
                   frameQueue, thread, opened, Beside>>

\* ------------------------------------------------ _frame_reader_loop

\* The reader task over: it left its loop or was cancelled.
ReaderOver == [NoReader EXCEPT !.pc = "done"]

\* read_frame as the thread starts it: nothing to read without source_info
\* or an opened capture, the kept frame of an image, else a capture read,
\* which fails at the end of a video and may fail on a camera.
ReadFrame(ok) ==
    CASE srcType = "none"  -> [NoRead EXCEPT !.st = "busy"]
      [] srcType = "image" -> [st |-> "busy", ret |-> TRUE, frame |-> currentFrame,
                               write |-> FALSE]
      [] capture # "open"  -> [NoRead EXCEPT !.st = "busy"]
      [] OTHER             -> IF ok /\ pos < VideoLen
                              THEN [st |-> "busy", ret |-> TRUE,
                                    frame |-> Frame(srcName, pos + 1), write |-> TRUE]
                              ELSE [NoRead EXCEPT !.st = "busy"]

\* The reader hands read_frame to its executor and awaits the result.  The
\* executors have one thread each; one read is modelled in flight at a time.
ReaderSubmit(ok) ==
    /\ thread.st = "idle"
    /\ thread' = ReadFrame(ok)
    /\ pos' = IF thread'.write THEN pos + 1 ELSE pos
    /\ reader' = [reader EXCEPT !.pc = "read"]

\* The reader at the top of its loop, after a sleep or at its start: out
\* when _is_running is off, a sleep while paused, the pacing sleep of a
\* video, else the read.
ReaderLoop ==
    /\ reader.pc \in {"start", "sleep"}
    /\ ~reader.cancel
    /\ IF ~isRunning THEN reader' = ReaderOver /\ UNCHANGED <<thread, pos>>
       ELSE IF isPaused THEN reader' = [reader EXCEPT !.pc = "sleep"] /\ UNCHANGED <<thread, pos>>
       ELSE \/ /\ srcType = "video"
               /\ reader' = [reader EXCEPT !.pc = "pace"]
               /\ UNCHANGED <<thread, pos>>
            \/ \E ok \in BOOLEAN : (srcType = "camera" \/ ok) /\ ReaderSubmit(ok)
    /\ UNCHANGED <<srcType, isRunning, isPaused, srcName, capture, currentFrame,
                   frameQueue, agen, opened, Beside>>

\* The pacing sleep of the reader is over: the read.
ReaderPaced ==
    /\ reader.pc = "pace"
    /\ ~reader.cancel
    /\ \E ok \in BOOLEAN : (srcType = "camera" \/ ok) /\ ReaderSubmit(ok)
    /\ UNCHANGED <<srcType, isRunning, isPaused, srcName, capture, currentFrame,
                   frameQueue, agen, opened, Beside>>

\* read_frame returns in the thread: a frame read from a capture is kept in
\* _current_frame, and the result is handed to the awaiting reader.
ThreadDone ==
    /\ thread.st = "busy"
    /\ currentFrame' = IF thread.write THEN thread.frame ELSE currentFrame
    /\ thread' = NoRead
    /\ reader' = IF reader.pc = "read"
                 THEN [reader EXCEPT !.pc = "got", !.ret = thread.ret,
                                     !.frame = thread.frame]
                 ELSE reader
    /\ UNCHANGED <<svars, srcName, capture, frameQueue, agen, opened, Beside>>

\* deque(maxlen=2).append
Append2(q, f) == IF Len(q) < 2 THEN Append(q, f) ELSE Append(Tail(q), f)

\* The reader takes up the result: a frame is appended to the queue; a
\* failed read ends the reader on a video, with _is_running cleared, and is
\* retried after a sleep otherwise.
ReaderGot ==
    /\ reader.pc = "got"
    /\ ~reader.cancel
    /\ IF reader.ret /\ reader.frame # NoFrame
       THEN /\ frameQueue' = Append2(frameQueue, reader.frame)
            /\ reader' = [NoReader EXCEPT !.pc = "sleep"]
            /\ UNCHANGED isRunning
       ELSE IF srcType = "video"
       THEN /\ isRunning' = FALSE
            /\ reader' = ReaderOver
            /\ UNCHANGED frameQueue
       ELSE /\ reader' = [NoReader EXCEPT !.pc = "sleep"]
            /\ UNCHANGED <<isRunning, frameQueue>>
    /\ UNCHANGED <<srcType, isPaused, pos, srcName, capture, currentFrame,
                   agen, thread, opened, Beside>>

\* The cancel() of the generator's finally block reaches the reader where
\* it is suspended.
ReaderCancelled ==
    /\ reader.cancel
    /\ reader.pc \in {"start", "sleep", "pace", "read", "got"}
    /\ reader' = ReaderOver
    /\ UNCHANGED <<svars, srcName, capture, currentFrame, frameQueue, agen,
                   thread, opened, Beside>>

\* The source manager with its adaptive generator, as Pipeline.run() and
\* the source routes use it in the default configuration.
NextAdaptive ==
    \/ \E p \in Names :
        \/ \E o \in ImageOutcomes : OpenImage(p, o)
        \/ \E o \in VideoOutcomes, first \in BOOLEAN : OpenVideo(p, o, first)
        \/ \E o \in CameraOutcomes : OpenCamera(p, o)
    \/ CloseSource
    \/ SmStop
    \/ SmPause
    \/ SmResume
    \/ AdaptiveStart
    \/ AdaptiveWake
    \/ AdaptiveNext
    \/ AdaptiveClose
    \/ AdaptiveFinDone
    \/ ReaderLoop
    \/ ReaderPaced
    \/ ThreadDone
    \/ ReaderGot
    \/ ReaderCancelled

SpecAdaptive == InitDefault /\ [][NextAdaptive]_vars

\* ------------------------------------------- sessions and configuration

\* The four sub-configs of a PipelineConfig.
Sections == {"detector", "recognizer", "visualizer", "performance"}

\* The values a sub-config takes here: 0 is the default one.
Vals == {0, 1}

\* PipelineConfig(): every sub-config from its default factory.
DefaultConfig == [s \in Sections |-> 0]

\* The configurations a caller or a request body supplies.
Supplied == {DefaultConfig, [s \in Sections |-> 1]}

\* PipelineConfig objects and session ids.  uuid4 prefixes are taken to be
\* fresh: ids are handed out in order.
Objs       == 1..MaxObj
SessionIds == 1..MaxSessions

\* No record under a session id; no pipeline cached for it.
NoSession == [cfg |-> 0, active |-> FALSE]
NoPipe    == [inst |-> 0, cfg |-> 0, detector |-> 0, recognizer |-> 0,
              renderer |-> 0, live |-> FALSE, failed |-> 0]

\* The state the steps of this layer leave alone.
Apart == <<pvars, svars, tvars, hvars, noop, preview, bvars, gvars, mvars>>

\* The objects some session or pipeline refers to.
Referenced(ss, pp) ==
    {ss[s].cfg : s \in SessionIds} \cup {pp[s].cfg : s \in SessionIds}

\* An object nothing refers to any more is reclaimed.
Reclaim(h, ss, pp) ==
    [o \in Objs |-> IF o \in Referenced(ss, pp) THEN h[o] ELSE DefaultConfig]

\* The objects a new PipelineConfig can be allocated at.
FreeObjs == Objs \ Referenced(sessions, pipe)

\* SessionManager.current_session
CurrentSession ==
    IF current # 0 /\ sessions[current].cfg # 0 THEN current ELSE 0

\* SessionManager.get_session(id): the id when there is a record, else 0.
GetSession(s) == IF sessions[s].cfg # 0 THEN s ELSE 0

\* SessionManager.list_sessions()
ListSessions == {s \in SessionIds : sessions[s].cfg # 0 /\ sessions[s].active}

\* create_session(config) on the heap h: the record holds the object given,
\* or a new PipelineConfig() when none is, and the session becomes current.
\* The result: the heap, the sessions, the current id and the next id.
Created(h, o) ==
    LET n == IF o = 0 THEN CHOOSE x \in FreeObjs : \A y \in FreeObjs : x <= y ELSE o
    IN  [heap |-> IF o = 0 THEN [h EXCEPT ![n] = DefaultConfig] ELSE h,
         sessions |-> [sessions EXCEPT ![nextId] = [cfg |-> n, active |-> TRUE]],
         current |-> nextId,
         nextId |-> nextId + 1]

\* get_or_create_session(): the current session when there is one, else
\* create_session().
GotOrCreated ==
    IF CurrentSession # 0
    THEN [heap |-> heap, sessions |-> sessions, current |-> current, nextId |-> nextId]
    ELSE Created(heap, 0)

\* Whether get_or_create_session() can be followed here.
CanGetOrCreate == CurrentSession # 0 \/ (nextId <= MaxSessions /\ FreeObjs # {})

\* create_session(config): config None (o = 0, c the default), a new
\* object the caller built with the value c (o = 0), or an object the
\* caller holds from a session (o).
CreateSession(o, c) ==
    /\ nextId <= MaxSessions
    /\ IF o = 0 THEN FreeObjs # {} ELSE o \in Referenced(sessions, pipe) /\ c = DefaultConfig
    /\ LET r == Created(heap, o)
       IN  /\ heap' = IF o = 0 THEN [r.heap EXCEPT ![r.sessions[nextId].cfg] = c] ELSE r.heap
           /\ sessions' = r.sessions
           /\ current' = r.current
           /\ nextId' = r.nextId
    /\ call' = [op |-> "create", sid |-> nextId]
    /\ UNCHANGED <<pipe, made, Apart>>

\* get_or_create_session()
GetOrCreateSession ==
    /\ CanGetOrCreate
    /\ LET r == GotOrCreated
       IN  /\ heap' = r.heap
           /\ sessions' = r.sessions
           /\ current' = r.current
           /\ nextId' = r.nextId
           /\ call' = [op |-> "get_or_create", sid |-> r.current]
    /\ UNCHANGED <<pipe, made, Apart>>

\* switch_session(s)
SwitchSession(s) ==
    /\ sessions[s].cfg # 0
    /\ current # s
    /\ current' = s
    /\ call' = [op |-> "switch", sid |-> s]
    /\ UNCHANGED <<heap, sessions, nextId, pipe, made, Apart>>

\* update_config(config, s): the record of s holds the object given, one
\* the caller holds from a session.
UpdateConfig(o, s) ==
    /\ sessions[s].cfg # 0
    /\ o \in Referenced(sessions, pipe)
    /\ sessions[s].cfg # o
    /\ sessions' = [sessions EXCEPT ![s].cfg = o]
    /\ heap' = Reclaim(heap, sessions', pipe)
    /\ call' = [op |-> "update", sid |-> s]
    /\ UNCHANGED <<current, nextId, pipe, made, Apart>>

\* A caller assigns a sub-config of the configuration stored for s.
MutateConfig(s, sec, v) ==
    /\ sessions[s].cfg # 0
    /\ heap[sessions[s].cfg][sec] # v
    /\ heap' = [heap EXCEPT ![sessions[s].cfg][sec] = v]
    /\ call' = [op |-> "mutate", sid |-> s]
    /\ UNCHANGED <<sessions, current, nextId, pipe, made, Apart>>

\* A close_session that clears the current pointer whatever it points to.
CurrentAfterAnyClose(s) == 0

\* The current pointer after close_session(s): cleared when it pointed to s.
CurrentAfterClose(s) == IF current = s THEN 0 ELSE current

\* close_session(s)
CloseSession(s) ==
    /\ sessions[s].cfg # 0
    /\ sessions' = [sessions EXCEPT ![s].active = FALSE]
    /\ current' = CurrentAfterClose(s)
    /\ call' = [op |-> "close", sid |-> s]
    /\ UNCHANGED <<heap, nextId, pipe, made, Apart>>

\* ------------------------------------------------------------- deps.py

\* Pipeline(config).initialize(): the detector, the recognizer and the
\* renderer are constructed with the sub-configs of the configuration
\* object o, whose value is c.  The fields detector, recognizer and renderer
\* are the values of the sub-configs the three hold; live tells that the
\* recognizer's is the object the session's configuration holds, which the
\* label route changes in place; failed counts the loads of a model that
\* raised in update_config.
Initialized(i, o, c) ==
    [inst |-> i, cfg |-> o, detector |-> c["detector"],
     recognizer |-> c["recognizer"], renderer |-> c["visualizer"], live |-> TRUE,
     failed |-> 0]

\* Pipeline.update_config(config) on the pipeline p, config being the object
\* o with the value c: _config is assigned, then the detector's, the
\* recognizer's and the renderer's update_config are called.  The detector
\* assigns its config and loads the model again when the model size has
\* changed; load_model re-raises what the load raises (~ok), and the
\* recognizer and the renderer are then not reached.
UpdatedPipeline(p, o, c, ok) ==
    IF ok
    THEN [p EXCEPT !.cfg = o, !.detector = c["detector"],
                   !.recognizer = c["recognizer"], !.renderer = c["visualizer"],
                   !.live = TRUE]
    ELSE [p EXCEPT !.cfg = o, !.detector = c["detector"], !.failed = @ + 1]

\* The detector has to load a model in update_config: the model size is not
\* the one of the sub-config it holds.  Loads that raise are counted, over
\* the cached pipelines, up to MaxFailed.
Reloads(p, c) ==
    /\ p.detector # c["detector"]
    /\ \A x \in SessionIds : pipe[x].failed < MaxFailed

\* get_pipeline on the result r of get_or_create_session(): the cached
\* pipeline of the session, else a new Pipeline(session.config), cached once
\* initialize() has returned; the exception of initialize() leaves the cache
\* as it was.
Resolved(r, ok) ==
    LET s == r.current
    IN  IF pipe[s].inst # 0 THEN [pipe |-> pipe, made |-> made, ok |-> TRUE]
        ELSE [pipe |-> IF ok THEN [pipe EXCEPT ![s] =
                                      Initialized(made[s] + 1, r.sessions[s].cfg,
                                                  r.heap[r.sessions[s].cfg])]
                       ELSE pipe,
              made |-> [made EXCEPT ![s] = @ + 1],
              ok |-> ok]

\* get_pipeline can be followed here: instances are counted up to MaxMade.
CanResolve(r) == pipe[r.current].inst # 0 \/ made[r.current] < MaxMade

\* A handler or a connection resolves the pipeline and uses it as it is.
GetPipeline(ok) ==
    /\ CanGetOrCreate
    /\ LET r == GotOrCreated
           p == Resolved(r, ok)
       IN  /\ CanResolve(r)
           /\ pipe[r.current].inst = 0 \/ ok
           /\ heap' = r.heap
           /\ sessions' = r.sessions
           /\ current' = r.current
           /\ nextId' = r.nextId
           /\ pipe' = p.pipe
           /\ made' = p.made
           /\ call' = [op |-> IF p.ok THEN "resolve" ELSE "resolve failed",
                      sid |-> r.current]
    /\ UNCHANGED Apart

\* cleanup_resources(): the cache cleared, the session manager dropped.
Cleanup ==
    /\ nextId > 1
    /\ pipe' = [s \in SessionIds |-> NoPipe]
    /\ sessions' = [s \in SessionIds |-> NoSession]
    /\ current' = 0
    /\ heap' = [o \in Objs |-> DefaultConfig]
    /\ call' = [op |-> "cleanup", sid |-> 0]
    /\ UNCHANGED <<nextId, made, Apart>>

\* ----------------------------------------------------- config routes

\* The sub-config sec assigned in a configuration.
PatchedReplacingAll(c, sec, v) == [DefaultConfig EXCEPT ![sec] = v]

\* current_config.<sec> = config
Patched(c, sec, v) == [c EXCEPT ![sec] = v]

\* PATCH /config/<sec>: the dependencies resolve the pipeline; the sub-config
\* is assigned in the current session's configuration object, which is then
\* given to the pipeline and to the session manager.  The recognizer holds
\* the sub-config that was replaced until its update_config is reached.
PatchConfig(sec, v) ==
    /\ CanGetOrCreate
    /\ LET r == GotOrCreated
           p == Resolved(r, TRUE)
           s == r.current
           o == r.sessions[s].cfg
           c == Patched(r.heap[o], sec, v)
           q == [p.pipe[s] EXCEPT !.live = IF sec = "recognizer" THEN FALSE ELSE @]
       IN  /\ CanResolve(r)
           /\ sessions' = r.sessions
           /\ current' = s
           /\ nextId' = r.nextId
           /\ \E ok \in BOOLEAN :
                 /\ ok \/ Reloads(q, c)
                 /\ pipe' = [p.pipe EXCEPT ![s] = UpdatedPipeline(q, o, c, ok)]
           /\ made' = p.made
           /\ heap' = Reclaim([r.heap EXCEPT ![o] = c], sessions', pipe')
           /\ call' = [op |-> "patch", sid |-> s]
    /\ UNCHANGED Apart

\* PUT /config/emotions/labels: the label list is assigned in the recognizer
\* sub-config of the current session's configuration object, in place, and
\* the object is given to the pipeline and to the session manager.
UpdateEmotionLabels(v) ==
    /\ CanGetOrCreate
    /\ LET r == GotOrCreated
           p == Resolved(r, TRUE)
           s == r.current
           o == r.sessions[s].cfg
           c == [r.heap[o] EXCEPT !["recognizer"] = v]
           q == [p.pipe[s] EXCEPT !.recognizer = IF p.pipe[s].live THEN v ELSE @]
       IN  /\ CanResolve(r)
           /\ sessions' = r.sessions
           /\ current' = s
           /\ nextId' = r.nextId
           /\ \E ok \in BOOLEAN :
                 /\ ok \/ Reloads(q, c)
                 /\ pipe' = [p.pipe EXCEPT ![s] = UpdatedPipeline(q, o, c, ok)]
           /\ made' = p.made
           /\ heap' = Reclaim([r.heap EXCEPT ![o] = c], sessions', pipe')
           /\ call' = [op |-> "labels", sid |-> s]
    /\ UNCHANGED Apart

\* PUT /config with the body c, and POST /config/reset with the default
\* one: a new configuration object given to the pipeline and, when
\* Pipeline.update_config has returned, to the session.
PutConfig(c) ==
    /\ CanGetOrCreate
    /\ LET r == GotOrCreated
           p == Resolved(r, TRUE)
           s == r.current
           free == Objs \ Referenced(r.sessions, p.pipe)
       IN  /\ CanResolve(r)
           /\ free # {}
           /\ LET o == CHOOSE x \in free : \A y \in free : x <= y
              IN  \E ok \in BOOLEAN :
                    /\ ok \/ Reloads(p.pipe[s], c)
                    /\ sessions' = IF ok THEN [r.sessions EXCEPT ![s].cfg = o]
                                   ELSE r.sessions
                    /\ pipe' = [p.pipe EXCEPT ![s] = UpdatedPipeline(@, o, c, ok)]
                    /\ heap' = Reclaim([r.heap EXCEPT ![o] = c], sessions', pipe')
           /\ current' = s
           /\ nextId' = r.nextId
           /\ made' = p.made
           /\ call' = [op |-> "put", sid |-> s]
    /\ UNCHANGED Apart

\* The session manager used through its interface.
NextSessions ==
    \/ \E o \in Objs \cup {0}, c \in Supplied : CreateSession(o, c)
    \/ GetOrCreateSession
    \/ \E s \in SessionIds :
        \/ SwitchSession(s)
        \/ CloseSession(s)
        \/ \E o \in Objs : UpdateConfig(o, s)
        \/ \E sec \in Sections, v \in Vals : MutateConfig(s, sec, v)

SpecSessions == InitDefault /\ [][NextSessions]_vars

\* The server's requests: the dependencies and the configuration routes,
\* with sessions closed between them.
NextConfig ==
    \/ \E ok \in BOOLEAN : GetPipeline(ok)
    \/ Cleanup
    \/ \E sec \in Sections, v \in Vals : PatchConfig(sec, v)
    \/ \E v \in Vals : UpdateEmotionLabels(v)
    \/ \E c \in Supplied : PutConfig(c)
    \/ \E s \in SessionIds : CloseSession(s)

SpecConfig == InitDefault /\ [][NextConfig]_vars

\* ------------------------------------------- face/person matching

\* BoundingBox
Box(bx, by, bw, bh) == [x |-> bx, y |-> by, w |-> bw, h |-> bh]

\* The boxes the detector returns for faces and for persons; width and
\* height are unconstrained floats, and a box may have none.
FaceBoxes == {Box(1, 1, 2, 2), Box(5, 1, 2, 2), Box(0, 5, 3, 1), Box(3, 2, 0, 1)}
PersonBoxes == {Box(0, 0, 4, 4), Box(2, 0, 12, 4), Box(2, 5, 12, 1), Box(2, 5, 2, 1),
                Box(0, 4, 6, 3)}

\* The state the steps of this layer leave alone.
Aside == <<pvars, svars, tvars, hvars, noop, preview, bvars, gvars, cvars>>

\* max and min of two numbers
Max2(a, b) == IF a >= b THEN a ELSE b
Min2(a, b) == IF a <= b THEN a ELSE b

\* BoundingBox.iou as the fraction <<intersection, union>>; 0.0 when the
\* boxes do not overlap.
Iou(a, b) ==
    LET x1 == Max2(a.x, b.x)
        y1 == Max2(a.y, b.y)
        x2 == Min2(a.x + a.w, b.x + b.w)
        y2 == Min2(a.y + a.h, b.y + b.h)
        inter == (x2 - x1) * (y2 - y1)
        union == a.w * a.h + b.w * b.h - inter
    IN IF x2 <= x1 \/ y2 <= y1 THEN <<0, 1>>
       ELSE IF union > 0 THEN <<inter, union>> ELSE <<0, 1>>

\* p > q for two such fractions
Greater(p, q) == p[1] * q[2] > q[1] * p[2]

\* iou_threshold = 0.1
IouThreshold == <<1, 10>>

\* The centre of the face box lies in the person box (x + width / 2 and
\* y + height / 2, compared doubled).
InPerson(f, p) ==
    /\ 2 * p.x <= 2 * f.x + f.w /\ 2 * f.x + f.w <= 2 * (p.x + p.w)
    /\ 2 * p.y <= 2 * f.y + f.h /\ 2 * f.y + f.h <= 2 * (p.y + p.h)

\* The inner loop of match_faces_to_persons over persons from index j on:
\* the index of best_person (0: None).  A person whose id is used is skipped
\* when skip is on.
RECURSIVE BestPerson(_, _, _, _, _, _, _)
BestPerson(face, ps, j, used, bestIou, best, skip) ==
    IF j > Len(ps) THEN best
    ELSE IF skip /\ ps[j].id \in used
    THEN BestPerson(face, ps, j + 1, used, bestIou, best, skip)
    ELSE LET iou == Iou(face.bbox, ps[j].bbox)
             inP == InPerson(face.bbox, ps[j].bbox)
         IN IF inP /\ (best = 0 \/ Greater(iou, bestIou))
            THEN BestPerson(face, ps, j + 1, used, iou, j, skip)
            ELSE IF ~inP /\ best = 0 /\ Greater(iou, IouThreshold)
            THEN BestPerson(face, ps, j + 1, used, iou, j, skip)
            ELSE BestPerson(face, ps, j + 1, used, bestIou, best, skip)

\* A best-person search that takes a person already used.
BestReusingPersons(face, ps, used) == BestPerson(face, ps, 1, used, <<0, 1>>, 0, FALSE)

\* best_person for one face among the persons not used yet.
BestUnused(face, ps, used) == BestPerson(face, ps, 1, used, <<0, 1>>, 0, TRUE)

\* mapping[k] = v on a dict kept as a set of <<key, value>> pairs.
DictSet(m, k, v) == {e \in m : e[1] # k} \cup {<<k, v>>}

\* mapping.get(k), 0 for None.
DictGet(m, k) == IF \E e \in m : e[1] = k THEN (CHOOSE e \in m : e[1] = k)[2] ELSE 0

\* The outer loop of match_faces_to_persons from face i on.
RECURSIVE MatchLoop(_, _, _, _, _)
MatchLoop(fs, ps, i, m, used) ==
    IF i > Len(fs) THEN m
    ELSE LET b == BestUnused(fs[i], ps, used)
         IN IF b = 0 THEN MatchLoop(fs, ps, i + 1, m, used)
            ELSE MatchLoop(fs, ps, i + 1, DictSet(m, fs[i].id, ps[b].id),
                           used \cup {ps[b].id})

\* match_faces_to_persons(faces, persons)
MatchFacesToPersons(fs, ps) ==
    IF fs = <<>> \/ ps = <<>> THEN {} ELSE MatchLoop(fs, ps, 1, {}, {})

\* person_lookup.get(pid): the index of the last person of that id, 0 for None.
PersonLookup(ps, pid) ==
    LET hits == {j \in 1..Len(ps) : ps[j].id = pid}
    IN IF hits = {} THEN 0 ELSE CHOOSE j \in hits : \A k \in hits : k <= j

\* The loop of apply_pairing from face i on: the two lists as it leaves them.
RECURSIVE ApplyLoop(_, _, _, _)
ApplyLoop(fs, ps, m, i) ==
    IF i > Len(fs) THEN [f |-> fs, p |-> ps]
    ELSE LET pid == DictGet(m, fs[i].id)
             j == PersonLookup(ps, pid)
         IN IF pid = 0 THEN ApplyLoop(fs, ps, m, i + 1)
            ELSE ApplyLoop([fs EXCEPT ![i].paired = pid],
                           IF j = 0 THEN ps ELSE [ps EXCEPT ![j].paired = fs[i].id],
                           m, i + 1)

\* The detector's own pairing loop from face i on, which writes paired_id
\* as it goes.
RECURSIVE PairLoop(_, _, _, _)
PairLoop(fs, ps, i, used) ==
    IF i > Len(fs) THEN [f |-> fs, p |-> ps]
    ELSE LET b == BestUnused(fs[i], ps, used)
         IN IF b = 0 THEN PairLoop(fs, ps, i + 1, used)
            ELSE PairLoop([fs EXCEPT ![i].paired = ps[b].id],
                          [ps EXCEPT ![b].paired = fs[i].id],
                          i + 1, used \cup {ps[b].id})

\* The lists of boxes of at most n elements.
BoxLists(S, n) == UNION {[1..k -> S] : k \in 0..n}

\* YOLODetector.detect up to its pairing: the faces and the persons of a
\* frame, each with a new id of the detector's counter and no paired_id.
Detect(fb, pb) ==
    /\ faces' = [i \in 1..Len(fb) |-> [id |-> i, bbox |-> fb[i], paired |-> 0]]
    /\ persons' = [j \in 1..Len(pb) |-> [id |-> Len(fb) + j, bbox |-> pb[j], paired |-> 0]]
    /\ mapping' = {}
    /\ mstep' = "detected"
    /\ UNCHANGED Aside

\* YOLODetector._pair_detections, the end of detect().
PairDetections ==
    /\ mstep = "detected"
    /\ LET out == IF faces = <<>> \/ persons = <<>> THEN [f |-> faces, p |-> persons]
                  ELSE PairLoop(faces, persons, 1, {})
       IN faces' = out.f /\ persons' = out.p
    /\ mstep' = "paired"
    /\ UNCHANGED <<mapping, Aside>>

\* mapping = match_faces_to_persons(faces, persons), on detections as the
\* detector created them or as it returned them.
Match ==
    /\ mstep \in {"detected", "paired"}
    /\ mapping' = MatchFacesToPersons(faces, persons)
    /\ mstep' = "matched"
    /\ UNCHANGED <<faces, persons, Aside>>

\* apply_pairing(faces, persons, mapping)
ApplyPairing ==
    /\ mstep = "matched"
    /\ LET out == ApplyLoop(faces, persons, mapping, 1)
       IN faces' = out.f /\ persons' = out.p
    /\ mstep' = "applied"
    /\ UNCHANGED <<mapping, Aside>>

\* The detections of a frame and their pairing.
NextMatching ==
    \/ \E fb \in BoxLists(FaceBoxes, MaxFaces), pb \in BoxLists(PersonBoxes, MaxPersons) :
        Detect(fb, pb)
    \/ PairDetections
    \/ Match
    \/ ApplyPairing

SpecMatching == InitDefault /\ [][NextMatching]_vars

\* ------------------------------------------------------------------ C1

\* C1: every change of the pipeline state is one of the documented
\* transitions: idle -> running by run(), running -> paused by pause(),
\* paused -> running by resume(), running/paused/error -> idle by stop(),
\* running -> error by an exception of the frame loop, running -> idle at the
\* end of the source.  In particular run() sets running only from idle.
C1_Documented ==
    \/ state = IDLE /\ state' = RUNNING /\ \E t \in Tasks : RunStart(t)
    \/ state = RUNNING /\ state' = PAUSED /\ \E c \in Conns : WsPause(c)
    \/ state = PAUSED /\ state' = RUNNING /\ \E c \in Conns : WsResume(c)
    \/ state \in {RUNNING, PAUSED, ERROR} /\ state' = IDLE
         /\ \E c \in Callers : stp[c].pc = "none" /\ stp'[c].from = state
    \/ state = RUNNING /\ state' = ERROR
    \/ state = RUNNING /\ state' = IDLE

C1_OnlyDocumentedTransitions == [][state' # state => C1_Documented]_vars

\* ------------------------------------------------------------------ C2

\* C2: whenever a call of stop() returns, the pipeline state is idle,
\* whatever the state was at the call and whatever a run() task did while
\* stop() was suspended.
C2_StopReturnsIdle ==
    [][\A c \in Callers :
          stp[c].pc = "snotify" /\ stp'[c].pc = "none" => state' = IDLE]_vars

\* ------------------------------------------------------------------ C3

\* C3: pause() called outside the running state and resume() called outside
\* the paused state change neither the pipeline nor the source manager, and
\* no status send begins.
C3_NoOpPauseResume ==
    [][\A c \in Conns :
          (WsPause(c) /\ state # RUNNING) \/ (WsResume(c) /\ state # PAUSED)
          => /\ UNCHANGED <<pvars, svars, tvars>>
             /\ stp' = stp]_vars

\* pause() was just called on a paused pipeline with a live frame loop.
C3_Witness ==
    /\ noop = "pause"
    /\ state = PAUSED
    /\ isPaused
    /\ \E t \in Tasks : run[t].pc \in LoopPcs

\* ------------------------------------------------------------------ C4

\* C4: run() called while the state is running returns at once: no field of
\* the pipeline or the source manager changes, no status send begins, no
\* generator is created, and the task ends without an exception.
C4_RunWhileRunning ==
    [][\A t \in Tasks :
          RunStart(t) /\ state = RUNNING
          => /\ UNCHANGED <<pvars, svars, enc, stp>>
             /\ run'[t].pc = "done"
             /\ run'[t].gen = "none"
             /\ run'[t].exc = "none"
             /\ run'[t].eos = "none"
             /\ \A u \in Tasks \ {t} : run'[u] = run[u]]_vars

\* A run() task has returned from its first guard: it is done, never had a
\* generator and raised nothing, and the state is still running.
C4_Witness ==
    /\ state = RUNNING
    /\ \E t \in Tasks :
          run[t].pc = "done" /\ run[t].gen = "none" /\ run[t].exc = "none"

\* ------------------------------------------------------------------ C5

\* C5: at most one run() task is inside its frame loop at any time, however
\* many clients are connected.  Counted are the tasks no cancel request is
\* out for, at the moments when no handler is inside a call of the pipeline
\* and the event loop has nothing scheduled.
C5_SingleLoop ==
    Quiet /\ (\A c \in Conns : stp[c].pc = "none")
    => Cardinality({t \in Tasks : run[t].pc \in LoopPcs /\ ~run[t].cancel}) <= 1

\* ------------------------------------------------------------------ C6

\* C6: a run() that passes its guards sets the state to running and the frame
\* count and the detector's id counter to zero, and is then inside the send
\* of the `running` status; the generator is not created before that send
\* is over.
C6_RunningBeforeFrames ==
    [][\A t \in Tasks :
          /\ RunStart(t) /\ state # RUNNING /\ initialized
             => /\ state' = RUNNING
                /\ frameCount' = 0
                /\ detCounter' = 0
                /\ run'[t].pc = "notify"
          /\ run'[t].pc \in {"start", "notify"}
             => run'[t].gen = "none" /\ run'[t].fid = 0]_vars

\* A run() task is inside its first status send, the state running and the
\* counters zero, while the generator of an earlier run is still around.
C6_Witness ==
    /\ state = RUNNING
    /\ frameCount = 0
    /\ detCounter = 0
    /\ \E t, u \in Tasks :
          run[t].pc = "notify" /\ run[u].pc = "gone" /\ run[u].gen = "open"

\* ------------------------------------------------------------------ C7

\* C7: run() calls the eos event only when its frame loop ended because the
\* source was exhausted, never when it ended by stop(), pause, an exception
\* or a cancellation.  Exhausted is read as widely as can be: the generator
\* ended of its own accord.
C7_EosOnlyAtEndOfSource ==
    \A t \in Tasks : run[t].eos # "early"

\* ------------------------------------------------------------------ C8

C9_RecoverFromError ==
    [][\A c \in Conns :
          /\ WsStop(c) => state' = IDLE
          /\ WsStopped(c) /\ stp[c].from = ERROR => state' = IDLE /\ rt'[c] = 0
          /\ WsStart(c) => rt'[c] # 0 /\ run'[rt'[c]].pc = "start"
          /\ rt[c] # 0 /\ run[rt[c]].pc = "start" /\ state = IDLE
             => \/ state' = IDLE /\ run'[rt[c]].pc = "start"
                \/ RunStart(rt[c]) /\ state' = RUNNING /\ run'[rt[c]].pc = "notify"]_vars

\* A stop() called in the error state is about to return, the state idle.
C9_Witness ==
    \E c \in Conns :
        /\ hst[c] = "stop"
        /\ stp[c].pc = "snotify"
        /\ stp[c].from = ERROR
        /\ state = IDLE
        /\ srcType # "none"

\* ----------------------------------------------------------------- C10

\* C10: a Pipeline that was constructed and not initialized is idle, and its
\* run() raises before anything changes: the state, the counters and the
\* source manager stay as they are, no status send begins and no generator
\* is created.
C10_UninitializedRunFails ==
    [][/\ ~initialized => state = IDLE
       /\ \A t \in Tasks :
             RunStart(t) /\ ~initialized
             => /\ run'[t].pc = "done"
                /\ run'[t].exc = "error"
                /\ run'[t].gen = "none"
                /\ UNCHANGED <<pvars, svars, enc, stp>>]_vars

\* run() has raised on a pipeline without detector and recognizer that has a
\* status callback and an open source.
C10_Witness ==
    /\ ~initialized
    /\ cbSet
    /\ srcType # "none"
    /\ state = IDLE
    /\ \E t \in Tasks : run[t].pc = "done" /\ run[t].exc = "error"

\* ----------------------------------------------------------------- C11

\* C11: when stop() returns, every encode-and-send task has been cancelled
\* or has completed, a task that the run loop created while stop() was
\* suspended included: none is left to render or to hand a frame to the
\* frame callback.
C11_NoEncodeTaskAfterStop ==
    [][\A c \in Callers :
          stp[c].pc = "snotify" /\ stp'[c].pc = "none"
          => \A e \in Encs : enc'[e].st \notin {"render", "send"}]_vars

\* ----------------------------------------------------------------- C12

\* A call of stop() by c returns in this step.
StopReturns(c) == stp[c].pc = "snotify" /\ stp'[c].pc = "none"

\* C12: a stop() with a status and a frame callback dispatches one preview
\* frame when an image or a video is open, after its status notification,
\* which says idle; it dispatches none for a camera or without a source, and
\* nothing but a returning stop() dispatches one (not the end of a run).
C12_PreviewAfterIdleStatus ==
    [][/\ \A c \in Callers :
             StopReturns(c)
             => /\ preview' = (IF srcType \in {"image", "video"} THEN srcType ELSE "none")
                /\ preview' # "none" => stp[c].msg = IDLE
       /\ (\A c \in Callers : ~StopReturns(c)) => preview' = "none"]_vars

\* ----------------------------------------------------------------- C13

\* C13: within one run() the frame messages handed to the frame callback
\* carry frame ids that are at least 1 and strictly increasing: with
\* synchronous processing each frame sent has a higher id than the frame the
\* generator yielded before it, with pipelined processing each frame an
\* encode task hands over has a higher id than the last one handed over.
C13_FrameIdsIncrease ==
    [][\A t \in Tasks :
          /\ run[t].pc # "send" /\ run'[t].pc = "send"
             => run'[t].fid > run[t].fid /\ run'[t].fid >= 1
          /\ run'[t].last # run[t].last /\ run'[t].pc \notin {"free", "done", "gone"}
             => run'[t].last > run[t].last /\ run'[t].last >= 1]_vars

\* ----------------------------------------------------------------- C14

\* An encode-and-send task that has been created and has not ended.
InFlight(f) == {e \in Encs : f[e].st \in {"render", "send"}}

\* C14: with pipelined processing at most one encode-and-send task is in
\* flight: when the task of a frame is created every earlier one has ended,
\* and a run() that awaited a task which failed goes on to detect and
\* predict on its next frame.
C14_OneEncodeInFlight ==
    [][/\ \A e \in Encs :
             enc[e].st # "render" /\ enc'[e].st = "render"
             => InFlight(enc') = {e}
       /\ \A t \in Tasks :
             /\ run[t].pc = "pend" /\ ~run[t].cancel
             /\ enc[run[t].wait].st = "failed"
             /\ run'[t] # run[t]
             => run'[t].pc = "infer"]_vars

\* ----------------------------------------------------------------- C15

C16_HeaderThenBytes ==
    [][\A w \in Sockets :
          wire[w] = "header" /\ wire'[w] # "header"
          => bcast'["frame"].pc = "bytes" /\ bcast'["frame"].at = w]_vars

\* ----------------------------------------------------------------- C17

\* C17: a message the pipeline hands to a broadcast callback is delivered to
\* every connection of the broadcast set: when a broadcast that was not
\* cancelled ends, every websocket that was in _connections when it began
\* and still is has been sent the message.
C17_BroadcastReachesAll ==
    [][\A s \in Senders :
          bcast[s].pc \in {"text", "header", "bytes"} /\ bcast'[s].pc = "idle"
          => \A w \in bcast[s].start :
                w \in connections' => w \in Served(bcast[s])]_vars

\* ----------------------------------------------------------------- C18

\* C18: a text message that is not JSON, or is JSON without a recognized
\* action (another action, none, or a value that is no object), is ignored:
\* the pipeline state, the run() tasks and the task the handler holds are as
\* before, and the handler is still in its receive loop.
C18_OtherMessagesIgnored ==
    [][noop' = "message"
       => /\ state' = state
          /\ run' = run
          /\ rt' = rt
          /\ hst' = hst]_vars

\* ----------------------------------------------------------------- C19

\* The handler of c leaves its receive loop in this step.
LeavesLoop(c) == hst[c] = "open" /\ hst'[c] \notin {"open", "stop"}

\* The handler of c is over with this step.
HandlerOver(c) == hst[c] \in {"open", "closing"} /\ hst'[c] \notin {"open", "stop", "closing"}

Answered(req) == noop' = Answer(req, 200) \/ noop' = Answer(req, 400)

\* C20: the REST control routes answer a request made in an invalid state
\* with a client error, and no control request changes the pipeline: start
\* is rejected when the state is running or no source is open, pause unless
\* the state is running, resume unless it is paused; an accepted start only
\* validates.
C20_ControlValidates ==
    [][\A req \in Controls :
          Answered(req)
          => /\ req = "start"
                => (noop' = Answer(req, 400) <=> state = RUNNING \/ srcType = "none")
             /\ req = "pause" => (noop' = Answer(req, 400) <=> state # RUNNING)
             /\ req = "resume" => (noop' = Answer(req, 400) <=> state # PAUSED)
             /\ UNCHANGED <<state, frameCount, detCounter, pendingEncode, cbSet,
                            svars, tvars, hvars>>]_vars

\* start has been rejected for want of a source, after the pipeline had
\* stopped in the error state.
C20_Witness ==
    /\ noop = Answer("start", 400)
    /\ state = ERROR
    /\ srcType = "none"

\* ----------------------------------------------------------------- C21

\* C21: a REST stop, pause or resume request that is accepted has performed
\* the orchestrator operation when it is answered: the state is idle and the
\* source iteration stopped after stop, the state paused and the source
\* paused after pause, the state running and the source not paused after
\* resume.
C21_ControlPerforms ==
    [][/\ noop' = Answer("stop", 200) => state' = IDLE /\ ~isRunning'
       /\ noop' = Answer("pause", 200) => state' = PAUSED /\ isPaused'
       /\ noop' = Answer("resume", 200) => state' = RUNNING /\ ~isPaused']_vars

\* ----------------------------------------------------------------- C22

\* C22: when an upload or a camera selection found the pipeline running, the
\* pipeline is stopped when the route opens the new source (state idle) and
\* is not running once the source is opened (state not running, source
\* iteration off).
C22_OpenStopsFirst ==
    [][rest = "stop" /\ rest' = "idle"
       => state # RUNNING /\ state' # RUNNING /\ ~isRunning']_vars

\* ----------------------------------------------------------------- C23

\* C23: an open_* call closes the source that was open: after a call that
\* returned False, and until the next call on the source manager, no source
\* is open (no source_info, no retained frame); after a call that returned
\* True source_info describes the source that call opened.
C23_OpenClosesFirst ==
    /\ opened.ret = "false"
       => srcType = "none" /\ srcName = "none" /\ currentFrame = NoFrame
    /\ opened.ret = "true"
       => srcType = opened.kind /\ srcName = opened.name

\* ----------------------------------------------------------------- C24

\* The configuration stored for the current session, the default one when
\* the request is the first to need a session.
StoredConfig ==
    IF CurrentSession # 0 THEN heap[sessions[current].cfg] ELSE DefaultConfig

\* C24: a PATCH of one section replaces exactly that sub-config in the
\* configuration stored for the current session, leaves the three others as
\* they were, and the pipeline of the session and the session store then hold
\* the same configuration.
C24_PatchReplacesOneSection ==
    [][\A sec \in Sections, v \in Vals :
          call'.op = "patch" /\ PatchConfig(sec, v)
          => /\ heap'[sessions'[current'].cfg] = [StoredConfig EXCEPT ![sec] = v]
             /\ pipe'[current'].cfg = sessions'[current'].cfg]_vars

\* A section has been patched in a configuration in which another section
\* is not the default one.
C24_Witness ==
    /\ call.op = "patch"
    /\ \E a, b \in Sections :
          /\ a # b
          /\ heap[sessions[current].cfg][a] = 1
          /\ heap[sessions[current].cfg][b] = 1
          /\ heap[pipe[current].cfg][a] = 1

\* ----------------------------------------------------------------- C25

\* C25: changing the configuration of one session, by update_config or by
\* assigning a field of its stored configuration, leaves the configuration
\* stored for every other session as it was.
C25_SessionsIndependent ==
    [][\A a, b \in SessionIds :
          /\ a # b
          /\ call'.op \in {"update", "mutate"}
          /\ call'.sid = a
          /\ sessions[b].cfg # 0
          => heap'[sessions'[b].cfg] = heap[sessions[b].cfg]]_vars

\* ----------------------------------------------------------------- C26

\* C26: get_or_create_session() returns the current session when there is
\* one and otherwise creates a session and makes it current; close_session
\* marks the session inactive, clears the current pointer only when it
\* pointed to that session, and keeps the record, which get_session still
\* returns while list_sessions no longer does.
C26_GetOrCreateAndClose ==
    [][/\ call'.op = "get_or_create"
          => /\ CurrentSession # 0
                => call'.sid = current /\ UNCHANGED <<sessions, current, nextId>>
             /\ CurrentSession = 0
                => /\ call'.sid = nextId
                   /\ current' = nextId
                   /\ sessions[nextId].cfg = 0
                   /\ sessions'[nextId].cfg # 0 /\ sessions'[nextId].active
       /\ \A s \in SessionIds :
             call'.op = "close" /\ call'.sid = s
             => /\ ~sessions'[s].active
                /\ current' = IF current = s THEN 0 ELSE current
                /\ GetSession(s) = s /\ GetSession(s)' = s
                /\ sessions'[s].cfg = sessions[s].cfg
                /\ s \notin ListSessions'
                /\ \A t \in SessionIds \ {s} : sessions'[t] = sessions[t]]_vars

\* A session that was not the current one has been closed, and another one
\* is current.
C26_Witness ==
    /\ call.op = "close"
    /\ current # 0
    /\ current # call.sid
    /\ GetSession(call.sid) = call.sid
    /\ call.sid \notin ListSessions

\* ----------------------------------------------------------------- C27

\* C27: for a session id at most one Pipeline instance is ever created, and
\* every resolution of the pipeline while that session is current returns
\* that instance.
C27_OnePipelinePerSession ==
    \A s \in SessionIds :
        /\ made[s] <= 1
        /\ call.op = "resolve" /\ call.sid = s => pipe[s].inst = 1

\* ----------------------------------------------------------------- C28

\* The generator yields on this step.
Yields == agen'.pc = "yield" /\ agen'.fid = agen.fid + 1

\* C28: the frame queue never holds more than 2 frames; the frame the
\* adaptive generator yields is the newest of the queue, which is emptied;
\* and a generator yields the frames of a source in source order, none
\* twice and none older than one it has yielded.
C28_NewestFrameInOrder ==
    [][/\ Len(frameQueue') <= 2
       /\ Yields => /\ frameQueue # <<>>
                    /\ agen'.last = frameQueue[Len(frameQueue)]
                    /\ frameQueue' = <<>>
       /\ Yields /\ agen.fid >= 1 /\ agen'.last.src = agen.last.src
          => agen'.last.n > agen.last.n]_vars

\* ----------------------------------------------------------------- C29

\* C29: a frame generator that is in its loop when stop() is called leaves
\* the loop at its next check: it yields no further frame to its run().
C29_StoppedGeneratorExits ==
    [][\A t \in Tasks :
          run[t].halt /\ run'[t].gen = "open" => run'[t].fid <= run[t].fid]_vars

\* ----------------------------------------------------------------- C30

\* The ids of a list of detections.
Ids(ds) == {ds[i].id : i \in 1..Len(ds)}

\* C30: the mapping match_faces_to_persons returns is one-to-one (a face id
\* has one person id, a person id one face id, each mapped person is in the
\* persons list), and after apply_pairing a face's paired_id is a person's
\* id exactly when that person's paired_id is the face's id.
C30_PairingOneToOne ==
    /\ mstep \in {"matched", "applied"}
       => /\ \A a, b \in mapping : a[1] = b[1] \/ a[2] = b[2] => a = b
          /\ \A a \in mapping : a[1] \in Ids(faces) /\ a[2] \in Ids(persons)
    /\ mstep = "applied"
       => \A i \in 1..Len(faces), j \in 1..Len(persons) :
             faces[i].paired = persons[j].id <=> persons[j].paired = faces[i].id

\* Two faces in one person box, of which one is paired with it.
C30_Witness ==
    /\ mstep = "applied"
    /\ Len(faces) = 2 /\ persons # <<>>
    /\ \A i \in 1..2 : InPerson(faces[i].bbox, persons[1].bbox)
    /\ \E i, k \in 1..2 : faces[i].paired = persons[1].id /\ faces[k].paired # persons[1].id
    /\ persons[1].paired # 0

\* ----------------------------------------------------------------- C31

\* The person ids the faces before face i were mapped to.
UsedBefore(i) == {DictGet(mapping, faces[k].id) : k \in 1..(i - 1)} \ {0}

\* The persons not used before face i whose box contains its centre.
Containing(i) ==
    {j \in 1..Len(persons) : /\ persons[j].id \notin UsedBefore(i)
                             /\ InPerson(faces[i].bbox, persons[j].bbox)}

\* C31: a face with an unused person box containing its centre is mapped to
\* the containing person of highest IoU, whatever the order of the persons;
\* a face with no containing unused person and no unused person of IoU above
\* the threshold has no mapping entry.
C31_ContainingPersonPreferred ==
    mstep = "matched"
    => \A i \in 1..Len(faces) :
          /\ Containing(i) # {}
             => \E j \in Containing(i) :
                   /\ DictGet(mapping, faces[i].id) = persons[j].id
                   /\ \A k \in Containing(i) :
                         ~Greater(Iou(faces[i].bbox, persons[k].bbox),
                                  Iou(faces[i].bbox, persons[j].bbox))
          /\ (/\ Containing(i) = {}
              /\ \A j \in 1..Len(persons) :
                    persons[j].id \in UsedBefore(i)
                    \/ ~Greater(Iou(faces[i].bbox, persons[j].bbox), IouThreshold))
             => DictGet(mapping, faces[i].id) = 0

\* ----------------------------------------------------------------- C32

\* The boxes of the detections of the frame.
BoxesSeen == {faces[i].bbox : i \in 1..Len(faces)} \cup {persons[j].bbox : j \in 1..Len(persons)}

\* a and b share a region of positive area.
Overlap(a, b) ==
    /\ Max2(a.x, b.x) < Min2(a.x + a.w, b.x + b.w)
    /\ Max2(a.y, b.y) < Min2(a.y + a.h, b.y + b.h)

\* C32: iou is symmetric, lies in [0, 1], is 0 for boxes that do not
\* overlap and 1 for identical boxes, boxes of zero width or height included.
C32_IouProperties ==
    \A a, b \in BoxesSeen :
        /\ Iou(a, b) = Iou(b, a)
        /\ 0 <= Iou(a, b)[1] /\ Iou(a, b)[1] <= Iou(a, b)[2]
        /\ ~Overlap(a, b) => Iou(a, b)[1] = 0
        /\ Iou(a, a)[1] = Iou(a, a)[2]

\* ----------------------------------------------------------------- C33

\* C33: the frame ids a sequential generator yields are 1, 2, 3, ... with
\* no gap or repeat, whatever skip_frames is; a new generator starts at 1
\* again; and the generator of an image source yields one frame only.
C33_SequenceIds ==
    [][\A t \in Tasks :
          /\ run'[t].fid # run[t].fid /\ run'[t].fid # 0
             => run'[t].fid = run[t].fid + 1
          /\ run[t].gen # "open" /\ run'[t].gen = "open" /\ run'[t].fid # 0
             => run'[t].fid = 1
          /\ srcType = "image" => run'[t].fid <= 1]_vars

\* A generator that skips two frames between yields has yielded its second.
C33_Witness == skipFrames = 2 /\ \E t \in Tasks : run[t].fid = 2 /\ run[t].gen = "open"

\* The generator of an image with skip_frames 2 has yielded and is over.
C33_WitnessImage ==
    /\ srcType = "image" /\ skipFrames = 2 /\ frameCount = 1
    /\ \A t \in Tasks : run[t].gen # "open"

\* ----------------------------------------------------------------- C34

\* C34: a failed read ends the sequential generator of a video, and the
\* run() whose generator ended so ends with the state idle and the eos
\* event; the generator of a camera does not end on a failed read: it ends
\* of its own accord only when _is_running has been cleared.
C34_ReadFailure ==
    [][\A t \in Tasks :
          /\ (/\ srcType = "video" /\ run[t].pc = "gwait" /\ ~run[t].cancel
              /\ isRunning /\ ~isPaused /\ pos = VideoLen /\ run'[t].pc # "gwait")
             => run'[t].gen = "closed"
          /\ srcType = "video" /\ srcType' = "video" /\ run[t].eof /\ ~run'[t].eof
             => state' = IDLE
          /\ (/\ srcType = "camera" /\ run[t].pc = "gwait" /\ ~run[t].cancel
              /\ run[t].gen = "open" /\ run'[t].gen = "closed")
             => ~isRunning]_vars

\* ----------------------------------------------------------------- C35

\* C35: while the pipeline is paused no frame is consumed: no generator
\* yields a frame and none reads from the source.
C35_PausedConsumesNothing ==
    [][state = PAUSED /\ state' = PAUSED
       => pos' = pos /\ \A t \in Tasks : run'[t].fid <= run[t].fid]_vars

\* ----------------------------------------------------------------- C36

\* C36: the reader task of the adaptive generator does not outlive the
\* generator, and once stop() or close() has cleared _is_running it starts
\* no further read.
C36_ReaderEndsWithGenerator ==
    [][/\ agen'.pc = "none" => reader'.pc = "none"
       /\ thread.st = "idle" /\ thread'.st = "busy" => isRunning]_vars

\* ----------------------------------------------------------------- C37

\* The tasks whose run() is before or in its frame loop, or in its except
\* and finally blocks before the state test that ends them.
Looping == {t \in Tasks : run[t].pc \notin {"free", "fnotify", "done", "gone"}}

\* C37: whenever the pipeline state is running or paused a run() frame loop
\* is active.
C37_StateHasLoop == state \in {RUNNING, PAUSED} => Looping # {}

\* ----------------------------------------------------------------- C39

\* C39: a client connecting or disconnecting while a broadcast is suspended
\* in a send does not disturb it: the loop over _connections is not ended by
\* the iterator raising, and the broadcast ends only when every websocket
\* that has been connected throughout has been sent the message.
C39_BroadcastUndisturbed ==
    [][\A s \in Senders :
          bcast[s].pc \in {"text", "header", "bytes"} /\ bcast'[s].pc = "idle"
          => /\ Cardinality(connections) = Cardinality(bcast[s].start)
             /\ \A w \in bcast[s].start \cap connections :
                   sock[w] = "open" => w \in Served(bcast[s])]_vars

\* ----------------------------------------------------------------- C38

\* close() runs, by itself or at the head of an open_* call: the capture
\* it finds is released.
Releases ==
    \/ CloseSource
    \/ \E p \in Names :
        \/ \E o \in ImageOutcomes : OpenImage(p, o)
        \/ \E o \in VideoOutcomes, first \in BOOLEAN : OpenVideo(p, o, first)
        \/ \E o \in CameraOutcomes : OpenCamera(p, o)

\* run() seeks the video back to its start before a new generator.
Seeks == AdaptiveStart /\ srcType = "video"

\* C38: while a read of the capture issued by the reader is in flight in
\* its thread, no other context releases the capture or moves its position.
C38_CaptureUsedByOne ==
    [][thread.st = "busy" /\ thread.write => ~Releases /\ ~Seeks]_vars

\* ----------------------------------------------------------------- C40

\* C40: after every configuration request the pipeline of the current
\* session holds the configuration stored for the session, and the detector,
\* the recognizer and the renderer hold its sub-configs.
C40_PipelineHoldsStoredConfig ==
    \A s \in SessionIds :
        CurrentSession = s /\ pipe[s].inst # 0
        => /\ heap[pipe[s].cfg] = heap[sessions[s].cfg]
           /\ pipe[s].detector = heap[sessions[s].cfg]["detector"]
           /\ pipe[s].recognizer = heap[sessions[s].cfg]["recognizer"]
           /\ pipe[s].renderer = heap[sessions[s].cfg]["visualizer"]

====
